---- MODULE Spec2Model ----
(***************************************************************************)
(* Model of gosette's HTTPTestServer (src/httptestserver.go): the queue of *)
(* predefined responses, the record store, the multi target response       *)
(* writer and the ServeHTTP handler with its error path.                   *)
(***************************************************************************)
EXTENDS Integers, Sequences, FiniteSets, TLC

(***************************************************************************)
(* Bounds of the model.                                                    *)
(***************************************************************************)
\* Largest number of predefined responses queued at once.
MaxResponses == 3
\* Largest number of requests handled in one behaviour.
MaxRequests == 3
\* Largest number of requests handled in one behaviour that draws its
\* requests from AnyRequestPool.
MaxAnyRequests == 1
\* Largest number of targets of the writer under test, and of calls made on
\* it in one behaviour.
MaxTargets == 3
MaxWriterCalls == 2
\* Largest number of requests handled in one behaviour that follows the
\* handler statement by statement.
MaxStepRequests == 2
\* Largest number of requests handled in one behaviour in which handlers run
\* concurrently.
MaxConcRequests == 3
\* Largest number of requests handled in one behaviour in which handlers
\* that succeed or fail run concurrently with a PopServerRecord.
MaxAppendRequests == 2

(***************************************************************************)
(* Program constants.                                                      *)
(***************************************************************************)
StatusOK == 200
StatusNoContent == 204
StatusNotFound == 404
StatusInternalServerError == 500

FormContentType == "application/x-www-form-urlencoded"

(***************************************************************************)
(* Errors.  An error is a record: prefix is the text fmt.Errorf puts in    *)
(* front of the wrapped error ("" for an error that wraps nothing), cause  *)
(* is the text of the innermost error.  NoErr is the nil error.            *)
(***************************************************************************)
NoErr == [prefix |-> "", cause |-> ""]

BaseErr(msg) == [prefix |-> "", cause |-> msg]

\* fmt.Errorf("<prefix>: %w", err)
Errorf(prefix, err) == [prefix |-> prefix, cause |-> err.cause]

\* errors.Unwrap(err)
Unwrap(err) == IF err.prefix = "" THEN NoErr ELSE BaseErr(err.cause)

\* err.Error(), as the sequence of the pieces of the text
ErrorText(err) ==
    IF err.prefix = "" THEN <<err.cause>> ELSE <<err.prefix, ": ", err.cause>>

ReadBodyPrefix == "test server failed to read the request body"
ParseFormPrefix == "test server failed to parse query string and form data"
WriteResponsePrefix == "test server failed to write the predefined response"

\* The failures the collaborators can report.
ErrPwned == BaseErr("PWNED")
ErrBadQuery == BaseErr("invalid URL escape")
ErrSinkWrite == BaseErr("broken pipe")

(***************************************************************************)
(* http.Header: a map from canonical keys to the ordered list of values.   *)
(* A key that is absent is a key with no value.                            *)
(***************************************************************************)
HeaderKeys == {"Content-Type", "X-Tag", "Server"}
RawKeys == {"Content-Type", "x-tag"}

\* textproto.CanonicalMIMEHeaderKey, on the keys of the model
CanonicalKey(k) == IF k = "x-tag" THEN "X-Tag" ELSE k

EmptyHeader == [k \in HeaderKeys |-> <<>>]

\* http.Header.Add
HeaderAdd(h, k, v) == [h EXCEPT ![CanonicalKey(k)] = Append(@, v)]

\* http.Header.Set
HeaderSet(h, k, v) == [h EXCEPT ![CanonicalKey(k)] = <<v>>]

\* http.Header.Get
HeaderGet(h, k) ==
    IF h[CanonicalKey(k)] = <<>> THEN "" ELSE h[CanonicalKey(k)][1]

(***************************************************************************)
(* PredefinedServerResponse.  Headers maps the keys as the user wrote them *)
(* to their values; Body is a sequence of bytes.                           *)
(***************************************************************************)
NoHeaders == [k \in RawKeys |-> <<>>]

PredefinedServerResponse(status, headers, body) ==
    [Status |-> status, Headers |-> headers, Body |-> body]

\* A faulty variant: the default response carries status 200.
DefaultResponse_StatusOK == PredefinedServerResponse(StatusOK, NoHeaders, <<>>)

\* The response built when the queue is empty.
DefaultResponse == PredefinedServerResponse(StatusNotFound, NoHeaders, <<>>)

RespA ==
    PredefinedServerResponse(StatusOK,
        [NoHeaders EXCEPT !["Content-Type"] = <<"application/json">>,
                          !["x-tag"] = <<"a", "b">>],
        <<"{", "}">>)
RespB == PredefinedServerResponse(StatusNoContent, NoHeaders, <<>>)

\* The responses a test pushes.
ResponsePool == {RespA, RespB}

(***************************************************************************)
(* A response sink (http.ResponseWriter).  header is its header map;       *)
(* statuses lists the WriteHeader calls it received, each with the header  *)
(* map at that moment; writes lists the Write calls it received and        *)
(* whether each succeeded; fail says which of its successive Write calls   *)
(* fail (a call past the end of fail succeeds).                            *)
(***************************************************************************)
NewSink(header, fail) ==
    [header |-> header, statuses |-> <<>>, writes |-> <<>>, fail |-> fail]

\* httptest.NewRecorder(): no header, every Write succeeds
NewRecorder == NewSink(EmptyHeader, <<>>)

SinkHeaderAdd(s, k, v) == [s EXCEPT !.header = HeaderAdd(@, k, v)]

SinkHeaderSet(s, k, v) == [s EXCEPT !.header = HeaderSet(@, k, v)]

SinkWriteHeader(s, code) ==
    [s EXCEPT !.statuses = Append(@, [code |-> code, header |-> s.header])]

\* Whether the next Write of the sink fails.
SinkWriteFails(s) ==
    LET n == Len(s.writes) + 1
    IN  n <= Len(s.fail) /\ s.fail[n]

\* Write: an implicit WriteHeader(StatusOK) when no status was written yet.
SinkWrite(s, data) ==
    LET s1 == IF s.statuses = <<>> THEN SinkWriteHeader(s, StatusOK) ELSE s
    IN  [s1 EXCEPT !.writes =
            Append(@, [data |-> data, ok |-> ~SinkWriteFails(s)])]

\* The result (count, error) of the Write that SinkWrite performs.
SinkWriteResult(s, data) ==
    IF SinkWriteFails(s)
    THEN [n |-> 0, err |-> ErrSinkWrite]
    ELSE [n |-> Len(data), err |-> NoErr]

\* What the peer of the sink sees: the first status written wins ...
SinkStatus(s) == IF s.statuses = <<>> THEN 0 ELSE s.statuses[1].code

\* ... with the header map as it was at that moment ...
SinkSentHeader(s) ==
    IF s.statuses = <<>> THEN s.header ELSE s.statuses[1].header

RECURSIVE JoinWrites(_)
JoinWrites(ws) ==
    IF ws = <<>> THEN <<>>
    ELSE (IF Head(ws).ok THEN Head(ws).data ELSE <<>>) \o JoinWrites(Tail(ws))

\* ... and the body is what the successful writes carried, in order.
SinkBody(s) == JoinWrites(s.writes)

(***************************************************************************)
(* multiTargetHTTPResponseWriter: targets is a sequence of sinks.          *)
(***************************************************************************)
newMultiTargetHTTPResponseWriter(targets) == targets

\* A faulty variant: the header map of the last target is returned.
mwHeader_LastTarget(targets) == Len(targets)

\* Header(): the index of the target whose header map is returned, 0 when
\* the map returned is a fresh one attached to nothing.
mwHeader(targets) == IF Len(targets) > 0 THEN 1 ELSE 0

\* w.Header().Set(k, v) on the multi target writer
mwHeaderSet(targets, k, v) ==
    IF mwHeader(targets) = 0 THEN targets
    ELSE [targets EXCEPT ![mwHeader(targets)] = SinkHeaderSet(@, k, v)]

\* w.Header().Values(k) on the multi target writer: nothing in a fresh map
mwHeaderValues(targets, k) ==
    IF mwHeader(targets) = 0 THEN <<>>
    ELSE targets[mwHeader(targets)].header[CanonicalKey(k)]

\* for _, target := range mw.targets: the targets visited, in order.
RangeTargets(targets) == [i \in 1..Len(targets) |-> i]

\* A faulty variant: a target that already has a status is skipped.
mwWriteHeader_OncePerTarget(targets, statusCode) ==
    [i \in DOMAIN targets |->
        IF targets[i].statuses = <<>>
        THEN SinkWriteHeader(targets[i], statusCode)
        ELSE targets[i]]

\* WriteHeader: every target, in order, unconditionally
mwWriteHeader(targets, statusCode) ==
    [i \in DOMAIN targets |-> SinkWriteHeader(targets[i], statusCode)]

\* A faulty variant: the header is set, not added, on every target.
headersAdd_Sets(targets, key, value) ==
    [i \in DOMAIN targets |-> SinkHeaderSet(targets[i], key, value)]

\* A faulty variant: the header is added to the first target only.
headersAdd_FirstTargetOnly(targets, key, value) ==
    [i \in DOMAIN targets |->
        IF i = 1 THEN SinkHeaderAdd(targets[i], key, value) ELSE targets[i]]

\* headersAdd: Header().Add on every target
headersAdd(targets, key, value) ==
    [i \in DOMAIN targets |-> SinkHeaderAdd(targets[i], key, value)]

\* Write, from target i on: stop and return at the first failure.
RECURSIVE mwWriteFrom(_, _, _, _)
mwWriteFrom(targets, i, data, last) ==
    IF i > Len(targets) THEN [targets |-> targets, n |-> last.n, err |-> last.err]
    ELSE LET res == SinkWriteResult(targets[i], data)
             t1 == [targets EXCEPT ![i] = SinkWrite(@, data)]
         IN  IF res.err # NoErr
             THEN [targets |-> t1, n |-> res.n, err |-> res.err]
             ELSE mwWriteFrom(t1, i + 1, data, res)

\* A faulty variant: the targets are written last to first.
RECURSIVE mwWriteDownFrom(_, _, _, _)
mwWriteDownFrom(targets, i, data, last) ==
    IF i < 1 THEN [targets |-> targets, n |-> last.n, err |-> last.err]
    ELSE LET res == SinkWriteResult(targets[i], data)
             t1 == [targets EXCEPT ![i] = SinkWrite(@, data)]
         IN  IF res.err # NoErr
             THEN [targets |-> t1, n |-> res.n, err |-> res.err]
             ELSE mwWriteDownFrom(t1, i - 1, data, res)

mwWrite_LastTargetFirst(targets, data) ==
    mwWriteDownFrom(targets, Len(targets), data, [n |-> 0, err |-> NoErr])

\* A faulty variant: the data is written to every target, failed or not.
mwWrite_AllTargets(targets, data) ==
    LET failing == {i \in DOMAIN targets : SinkWriteFails(targets[i])}
    IN  [targets |-> [i \in DOMAIN targets |-> SinkWrite(targets[i], data)],
         n |-> IF failing = {} THEN
                  (IF targets = <<>> THEN 0 ELSE Len(data))
               ELSE 0,
         err |-> IF failing = {} THEN NoErr ELSE ErrSinkWrite]

\* A faulty variant: the data is written to the first target only.
mwWrite_FirstTargetOnly(targets, data) ==
    IF targets = <<>> THEN [targets |-> targets, n |-> 0, err |-> NoErr]
    ELSE [targets |-> [targets EXCEPT ![1] = SinkWrite(@, data)],
          n |-> SinkWriteResult(targets[1], data).n,
          err |-> SinkWriteResult(targets[1], data).err]

\* A faulty variant: the counts of the targets written are added up.
mwWrite_SumsCounts(targets, data) ==
    LET res == mwWriteFrom(targets, 1, data, [n |-> 0, err |-> NoErr])
    IN  [res EXCEPT !.n = @ * Len(targets)]

mwWrite(targets, data) ==
    mwWriteFrom(targets, 1, data, [n |-> 0, err |-> NoErr])

(***************************************************************************)
(* http.Request, as far as the handler reads it.  Body is what the body    *)
(* reader delivers before it ends; ReadErr is the failure it ends with     *)
(* (NoErr: it ends with EOF); QueryOK says whether the URL's query string  *)
(* parses.                                                                 *)
(***************************************************************************)
NewRequest(method, contentType, body, readErr, queryOK) ==
    [Method |-> method, ContentType |-> contentType, Body |-> body,
     ReadErr |-> readErr, QueryOK |-> queryOK]

\* The requests a client sends: a POST of a JSON body, a POST whose body
\* reader fails, a POST of a form to a URL whose query string does not parse.
RequestPool ==
    { NewRequest("POST", "application/json", <<"p">>, NoErr, TRUE),
      NewRequest("POST", "application/json", <<>>, ErrPwned, TRUE),
      NewRequest("POST", FormContentType, <<"a=1">>, NoErr, FALSE) }

\* Requests of every shape: with and without a body, of a method whose form
\* body ParseForm reads and of one it does not, of a form and of another
\* content type, with a body reader that fails after the body or does not,
\* with a query string that parses or does not.
AnyRequestPool ==
    { NewRequest(m, ct, b, e, q) :
        m \in {"GET", "POST"},
        ct \in {"application/json", FormContentType},
        b \in { <<>>, <<"a=1", "&", "b=2">> },
        e \in {NoErr, ErrPwned},
        q \in BOOLEAN }

\* The client connections a request arrives on: one whose writes succeed
\* and one, with a header already set, whose writes fail.
ClientSinkPool ==
    { NewSink(EmptyHeader, <<>>),
      NewSink([EmptyHeader EXCEPT !["Server"] = <<"srv">>], <<TRUE, TRUE>>) }

\* A faulty variant: the body is read without the tee, nothing is copied.
ReadAll_NoTee(r) == [data |-> <<>>, err |-> r.ReadErr]

\* io.ReadAll(r.Body) through the TeeReader: the bytes read, which the tee
\* copies to the record's buffer, and the failure if any.
ReadAll(r) == [data |-> r.Body, err |-> r.ReadErr]

\* r.ParseForm(): for a POST with a form content type the body is read (and
\* so copied by the tee) unless it was drained before; the first failure of
\* the body read and the query parse is returned.
ParseForm(r, drained) ==
    LET readsBody == r.Method = "POST" /\ r.ContentType = FormContentType
        rd == IF drained THEN [data |-> <<>>, err |-> NoErr] ELSE ReadAll(r)
        bodyErr == IF readsBody THEN rd.err ELSE NoErr
        queryErr == IF r.QueryOK THEN NoErr ELSE ErrBadQuery
    IN  [read |-> IF readsBody THEN rd.data ELSE <<>>,
         err |-> IF bodyErr # NoErr THEN bodyErr ELSE queryErr]

(***************************************************************************)
(* ServerRecord.  Response is the recorder the handler writes to.          *)
(***************************************************************************)
ServerRecord(id, r, recorder, body, err) ==
    [id |-> id, Request |-> r, Response |-> recorder, RequestBody |-> body,
     ServerError |-> err]

\* A faulty variant: one recorder is shared by all the records of the store.
SyncRecorder_All(srvRecords, id, recorder) ==
    [i \in DOMAIN srvRecords |-> [srvRecords[i] EXCEPT !.Response = recorder]]

\* The record's Response is the very recorder the handler keeps writing to:
\* the record of request id, once in the store, shows the recorder's final
\* state.
SyncRecorder(srvRecords, id, recorder) ==
    [i \in DOMAIN srvRecords |->
        IF srvRecords[i].id = id
        THEN [srvRecords[i] EXCEPT !.Response = recorder]
        ELSE srvRecords[i]]

\* A faulty variant: the record is not appended.
handleInternalError_NoAppend(srvRecords, w, serverRecord, err) ==
    LET w1 == mwHeaderSet(w, "Content-Type", "text/plain")
        w2 == mwWriteHeader(w1, StatusInternalServerError)
        w3 == mwWrite(w2, ErrorText(err)).targets
    IN  [records |-> srvRecords, w |-> w3]

\* A faulty variant: the error is not stored in the record.
handleInternalError_NoError(srvRecords, w, serverRecord, err) ==
    LET recs == Append(srvRecords, serverRecord)
        w1 == mwHeaderSet(w, "Content-Type", "text/plain")
        w2 == mwWriteHeader(w1, StatusInternalServerError)
        w3 == mwWrite(w2, ErrorText(err)).targets
    IN  [records |-> recs, w |-> w3]

\* A faulty variant: the record of a failed request is put at the front of the store.
handleInternalError_Prepends(srvRecords, w, serverRecord, err) ==
    LET rec == [serverRecord EXCEPT !.ServerError = err]
        recs == <<rec>> \o srvRecords
        w1 == mwHeaderSet(w, "Content-Type", "text/plain")
        w2 == mwWriteHeader(w1, StatusInternalServerError)
        w3 == mwWrite(w2, ErrorText(err)).targets
    IN  [records |-> recs, w |-> w3]

\* A faulty variant: no status is written to a target that already has one.
handleInternalError_NoSecondStatus(srvRecords, w, serverRecord, err) ==
    LET rec == [serverRecord EXCEPT !.ServerError = err]
        recs == Append(srvRecords, rec)
        w1 == mwHeaderSet(w, "Content-Type", "text/plain")
        w2 == [i \in DOMAIN w1 |->
                 IF w1[i].statuses = <<>>
                 THEN SinkWriteHeader(w1[i], StatusInternalServerError)
                 ELSE w1[i]]
        w3 == mwWrite(w2, ErrorText(err)).targets
    IN  [records |-> recs, w |-> w3]

(***************************************************************************)
(* handleInternalError: set the error, append the record, write the 500.   *)
(***************************************************************************)
handleInternalError(srvRecords, w, serverRecord, err) ==
    LET rec == [serverRecord EXCEPT !.ServerError = err]
        recs == Append(srvRecords, rec)
        w1 == mwHeaderSet(w, "Content-Type", "text/plain")
        w2 == mwWriteHeader(w1, StatusInternalServerError)
        w3 == mwWrite(w2, ErrorText(err)).targets
    IN  [records |-> recs, w |-> w3]

(***************************************************************************)
(* The steps of ServeHTTP.                                                 *)
(***************************************************************************)
\* A faulty variant: the response pushed last is served.
SelectResponse_Newest(srvResponses) ==
    IF Len(srvResponses) >= 1
    THEN srvResponses[Len(srvResponses)]
    ELSE DefaultResponse

\* The response to serve: the head of the queue, the default when empty.
SelectResponse(srvResponses) ==
    IF Len(srvResponses) >= 1 THEN srvResponses[1] ELSE DefaultResponse

\* A faulty variant: the head is popped even when it is the only response left.
PopUsedResponse_PopsLast(srvResponses) ==
    IF Len(srvResponses) >= 1 THEN Tail(srvResponses) ELSE srvResponses

\* The queue after selection: the head is popped only if others follow it.
PopUsedResponse(srvResponses) ==
    IF Len(srvResponses) > 1 THEN Tail(srvResponses) ELSE srvResponses

\* Add the values of one header, in order, to every target.
RECURSIVE AddValues(_, _, _)
AddValues(targets, key, values) ==
    IF values = <<>> THEN targets
    ELSE AddValues(headersAdd(targets, key, Head(values)), key, Tail(values))

\* Add every header of the response to every target.
RECURSIVE WriteResponseHeaders(_, _, _)
WriteResponseHeaders(targets, headers, keys) ==
    IF keys = {} THEN targets
    ELSE LET k == CHOOSE x \in keys : TRUE
         IN  WriteResponseHeaders(AddValues(targets, k, headers[k]),
                                  headers, keys \ {k})

\* A faulty variant: a request that fails before the selection pops the
\* queue all the same.
Outcome_EarlyPop(srvResponses, srvRecords, id, targets, ended, selected) ==
    [responses |-> IF selected = <<>> THEN PopUsedResponse(srvResponses)
                   ELSE srvResponses,
     records |-> SyncRecorder(srvRecords, id, targets[1]),
     w |-> targets[2],
     ended |-> ended,
     selected |-> selected]

\* A faulty variant: the response whose write failed is put back in front.
Outcome_PutsBack(srvResponses, srvRecords, id, targets, ended, selected) ==
    [responses |-> IF ended = "write" THEN selected \o srvResponses
                   ELSE srvResponses,
     records |-> SyncRecorder(srvRecords, id, targets[1]),
     w |-> targets[2],
     ended |-> ended,
     selected |-> selected]

\* The outcome of a handler invocation: the queues after it, the client
\* sink after it, where it ended, and the response it selected if any.
Outcome(srvResponses, srvRecords, id, targets, ended, selected) ==
    [responses |-> srvResponses,
     records |-> SyncRecorder(srvRecords, id, targets[1]),
     w |-> targets[2],
     ended |-> ended,
     selected |-> selected]

\* A faulty variant: the body is written even when it is empty.
ServeResponse_AlwaysWrites(srvResponses, srvRecords, mw, serverRecord) ==
    LET response == SelectResponse(srvResponses)
        resps == PopUsedResponse(srvResponses)
        mw1 == WriteResponseHeaders(mw, response.Headers, RawKeys)
        mw2 == mwWriteHeader(mw1, response.Status)
        wr == mwWrite(mw2, response.Body)
    IN  IF wr.err # NoErr
        THEN LET werr == Errorf(WriteResponsePrefix, wr.err)
                 h == handleInternalError(srvRecords, wr.targets,
                                          serverRecord, werr)
             IN  Outcome(resps, h.records, serverRecord.id, h.w, "write",
                         <<response>>)
        ELSE Outcome(resps, Append(srvRecords, serverRecord),
                     serverRecord.id, wr.targets, "success", <<response>>)

\* ServeHTTP from response selection on.
ServeResponse(srvResponses, srvRecords, mw, serverRecord) ==
    LET response == SelectResponse(srvResponses)
        resps == PopUsedResponse(srvResponses)
        mw1 == WriteResponseHeaders(mw, response.Headers, RawKeys)
        mw2 == mwWriteHeader(mw1, response.Status)
        wr == IF Len(response.Body) > 0
              THEN mwWrite(mw2, response.Body)
              ELSE [targets |-> mw2, n |-> 0, err |-> NoErr]
    IN  IF wr.err # NoErr
        THEN LET werr == Errorf(WriteResponsePrefix, wr.err)
                 h == handleInternalError(srvRecords, wr.targets,
                                          serverRecord, werr)
             IN  Outcome(resps, h.records, serverRecord.id, h.w, "write",
                         <<response>>)
        ELSE Outcome(resps, Append(srvRecords, serverRecord),
                     serverRecord.id, wr.targets, "success", <<response>>)

\* ServeHTTP(w, r), the id-th request the server handles.
ServeHTTP(srvResponses, srvRecords, w, r, id) ==
    LET responseRecorder == NewRecorder
        serverRecord == ServerRecord(id, r, responseRecorder, <<>>, NoErr)
        mw == newMultiTargetHTTPResponseWriter(<<responseRecorder, w>>)
        drained == r.ContentType # FormContentType
        rd == ReadAll(r)
        rec1 == IF drained
                THEN [serverRecord EXCEPT !.RequestBody = rd.data]
                ELSE serverRecord
    IN  IF drained /\ rd.err # NoErr
        THEN LET werr == Errorf(ReadBodyPrefix, rd.err)
                 h == handleInternalError(srvRecords, mw, rec1, werr)
             IN  Outcome(srvResponses, h.records, id, h.w, "read", <<>>)
        ELSE LET pf == ParseForm(r, drained)
                 rec2 == [rec1 EXCEPT !.RequestBody = @ \o pf.read]
             IN  IF pf.err # NoErr
                 THEN LET werr == Errorf(ParseFormPrefix, pf.err)
                          h == handleInternalError(srvRecords, mw, rec2, werr)
                      IN  Outcome(srvResponses, h.records, id, h.w, "parse",
                                  <<>>)
                 ELSE ServeResponse(srvResponses, srvRecords, mw, rec2)

(***************************************************************************)
(* The management surface.                                                 *)
(***************************************************************************)
\* A faulty variant: the response is put at the front of the queue.
PushPredefinedServerResponse_Front(srvResponses, resp) ==
    <<resp>> \o srvResponses

PushPredefinedServerResponse(srvResponses, resp) == Append(srvResponses, resp)

\* A faulty variant: the newest record is returned.
PopServerRecord_Newest(srvRecords) ==
    IF Len(srvRecords) >= 1
    THEN [record |-> <<srvRecords[Len(srvRecords)]>>,
          records |-> SubSeq(srvRecords, 1, Len(srvRecords) - 1)]
    ELSE [record |-> <<>>, records |-> srvRecords]

\* PopServerRecord: the record returned (none: the nil record) and the store
\* after the call.
PopServerRecord(srvRecords) ==
    IF Len(srvRecords) >= 1
    THEN [record |-> <<srvRecords[1]>>, records |-> Tail(srvRecords)]
    ELSE [record |-> <<>>, records |-> srvRecords]

\* A faulty variant: the response being replayed survives the clear.
ClearPredefinedServerResponses_KeepsLast(srvResponses) ==
    IF Len(srvResponses) >= 1
    THEN <<srvResponses[Len(srvResponses)]>>
    ELSE <<>>

ClearPredefinedServerResponses(srvResponses) == <<>>

ClearServerRecords(srvRecords) == <<>>

(***************************************************************************)
(* The state machine: the calls of a test that drives the server from one  *)
(* goroutine, one call at a time.                                          *)
(***************************************************************************)
VARIABLES
    responses,  \* HTTPTestServer.responses
    records,    \* HTTPTestServer.records
    nReq,       \* the number of requests handled so far
    last,       \* the last call and what it returned
    run,        \* the pushes, then the requests, since the queue was last reset
    cleared,    \* the responses were cleared and none was pushed since
    inflight,   \* the handler invocations in progress, statement by statement
    writer,     \* a multiTargetHTTPResponseWriter under test: its targets
    wcall       \* the last call made on that writer and what it returned

vars == <<responses, records, nReq, last, run, cleared, inflight, writer,
          wcall>>

\* The goroutines of the HTTP server that run the handler.
Handlers == {1, 2}

\* A goroutine that runs no handler.
IdleHandler ==
    [pc |-> "idle", id |-> 0, r |-> <<>>, start |-> <<>>, mw |-> <<>>,
     rec |-> <<>>, response |-> <<>>, err |-> NoErr,
     loadedResponses |-> <<>>, loadedRecords |-> <<>>]

\* No call was made on the writer under test.
NoCall == [op |-> "none", prev |-> "none", calls |-> 0, before |-> <<>>,
           data |-> <<>>, n |-> 0, err |-> NoErr, visited |-> <<>>,
           values |-> <<>>]

\* last: op names the call; popped is what PopServerRecord returned; serve
\* holds what a ServeHTTP call did.
Call(op, popped, serve) == [op |-> op, popped |-> popped, serve |-> serve]

\* run: pushed lists the responses pushed since the queue was last empty by
\* construction or by a clear; handled counts the requests handled after
\* the last of these pushes and reached those of them that reached response
\* selection; valid is FALSE once a push followed a request.
NewRun == [valid |-> TRUE, pushed |-> <<>>, handled |-> 0, reached |-> 0]
BrokenRun == [valid |-> FALSE, pushed |-> <<>>, handled |-> 0, reached |-> 0]

\* NewHTTPTestServer
Init ==
    /\ responses = <<>>
    /\ records = <<>>
    /\ nReq = 0
    /\ last = Call("New", <<>>, <<>>)
    /\ run = NewRun
    /\ cleared = FALSE
    /\ inflight = [h \in Handlers |-> IdleHandler]
    /\ writer = <<>>
    /\ wcall = NoCall

Push(resp) ==
    /\ Len(responses) < MaxResponses
    /\ responses' = PushPredefinedServerResponse(responses, resp)
    /\ last' = Call("Push", <<>>, <<>>)
    /\ run' = IF run.valid /\ run.handled = 0
              THEN [run EXCEPT !.pushed = Append(@, resp)]
              ELSE BrokenRun
    /\ cleared' = FALSE
    /\ UNCHANGED <<records, nReq, inflight, writer, wcall>>

\* One call of ServeHTTP, from its first statement to its return.
Handle(r, w) ==
    /\ LET out == ServeHTTP(responses, records, w, r, nReq + 1)
           done == [req |-> r, w0 |-> w, w |-> out.w,
                    ended |-> out.ended, selected |-> out.selected]
       IN  /\ responses' = out.responses
           /\ records' = out.records
           /\ last' = Call("ServeHTTP", <<>>, <<done>>)
           /\ run' = IF run.valid
                     THEN [run EXCEPT
                             !.handled = @ + 1,
                             !.reached = @ + Len(out.selected)]
                     ELSE run
    /\ nReq' = nReq + 1
    /\ UNCHANGED <<cleared, inflight, writer, wcall>>

Serve(r, w) ==
    /\ nReq < MaxRequests
    /\ Handle(r, w)

Pop ==
    /\ LET res == PopServerRecord(records)
       IN  /\ records' = res.records
           /\ last' = Call("Pop", res.record, <<>>)
    /\ UNCHANGED <<responses, nReq, run, cleared, inflight, writer, wcall>>

ClearResponses ==
    /\ responses' = ClearPredefinedServerResponses(responses)
    /\ last' = Call("ClearResponses", <<>>, <<>>)
    /\ run' = NewRun
    /\ cleared' = TRUE
    /\ UNCHANGED <<records, nReq, inflight, writer, wcall>>

\* A faulty variant: the clear of the records clears the responses too.
ClearRecords_AlsoResponses ==
    /\ records' = ClearServerRecords(records)
    /\ responses' = <<>>
    /\ last' = Call("ClearRecords", <<>>, <<>>)
    /\ UNCHANGED <<nReq, run, cleared, inflight, writer, wcall>>

ClearRecords ==
    /\ records' = ClearServerRecords(records)
    /\ last' = Call("ClearRecords", <<>>, <<>>)
    /\ UNCHANGED <<responses, nReq, run, cleared, inflight, writer, wcall>>

\* Clear: both queues
Clear ==
    /\ responses' = ClearPredefinedServerResponses(responses)
    /\ records' = ClearServerRecords(records)
    /\ last' = Call("Clear", <<>>, <<>>)
    /\ run' = NewRun
    /\ cleared' = TRUE
    /\ UNCHANGED <<nReq, inflight, writer, wcall>>

Next ==
    \/ \E resp \in ResponsePool : Push(resp)
    \/ \E r \in RequestPool, w \in ClientSinkPool : Serve(r, w)
    \/ Pop
    \/ ClearResponses
    \/ ClearRecords
    \/ Clear

Spec == Init /\ [][Next]_vars

\* The same server handling requests of every shape.
ServeAny(r, w) ==
    /\ nReq < MaxAnyRequests
    /\ Handle(r, w)

NextAny ==
    \/ \E resp \in ResponsePool : Push(resp)
    \/ \E r \in AnyRequestPool, w \in ClientSinkPool : ServeAny(r, w)

SpecAny == Init /\ [][NextAny]_vars

(***************************************************************************)
(* The multi target writer on its own: a writer is built over any list of  *)
(* targets and its methods are called.                                     *)
(***************************************************************************)
\* The targets a writer is built over: one whose writes succeed, one whose
\* writes fail, one with a header already set whose second write fails.
TargetPool ==
    { NewSink(EmptyHeader, <<>>),
      NewSink(EmptyHeader, <<TRUE>>),
      NewSink([EmptyHeader EXCEPT !["Server"] = <<"srv">>], <<FALSE, TRUE>>) }

TargetLists == UNION { [1..k -> TargetPool] : k \in 0..MaxTargets }

\* What a handler passes to the writer.
WriterData == { <<"x">>, <<"y", "z">> }
WriterStatuses == {StatusOK, StatusInternalServerError}

\* wcall: op names the call and prev the call before it, data holds its
\* arguments, before the targets as they were when it was made, n and err
\* what a Write returned, visited the targets a WriteHeader visited, in
\* order, values what a Header().Values returned.
WCall(op, data, n, err) ==
    [op |-> op, prev |-> wcall.op, calls |-> wcall.calls + 1,
     before |-> writer, data |-> data, n |-> n, err |-> err,
     visited |-> <<>>, values |-> <<>>]

\* mw := newMultiTargetHTTPResponseWriter(targets...)
InitWriter ==
    /\ responses = <<>>
    /\ records = <<>>
    /\ nReq = 0
    /\ last = Call("New", <<>>, <<>>)
    /\ run = NewRun
    /\ cleared = FALSE
    /\ inflight = [h \in Handlers |-> IdleHandler]
    /\ writer \in { newMultiTargetHTTPResponseWriter(ts) : ts \in TargetLists }
    /\ wcall = NoCall

\* mw.Write(data)
WWrite(data) ==
    /\ wcall.calls < MaxWriterCalls
    /\ LET res == mwWrite(writer, data)
       IN  /\ writer' = res.targets
           /\ wcall' = WCall("Write", data, res.n, res.err)
    /\ UNCHANGED <<responses, records, nReq, last, run, cleared, inflight>>

\* mw.WriteHeader(statusCode)
WWriteHeader(statusCode) ==
    /\ wcall.calls < MaxWriterCalls
    /\ writer' = mwWriteHeader(writer, statusCode)
    /\ wcall' = [WCall("WriteHeader", <<statusCode>>, 0, NoErr)
                    EXCEPT !.visited = RangeTargets(writer)]
    /\ UNCHANGED <<responses, records, nReq, last, run, cleared, inflight>>

\* mw.headersAdd(key, value)
WHeadersAdd(key, value) ==
    /\ wcall.calls < MaxWriterCalls
    /\ writer' = headersAdd(writer, key, value)
    /\ wcall' = WCall("headersAdd", <<key, value>>, 0, NoErr)
    /\ UNCHANGED <<responses, records, nReq, last, run, cleared, inflight>>

\* mw.Header().Set(key, value)
WHeaderSet(key, value) ==
    /\ wcall.calls < MaxWriterCalls
    /\ writer' = mwHeaderSet(writer, key, value)
    /\ wcall' = WCall("Header.Set", <<key, value>>, 0, NoErr)
    /\ UNCHANGED <<responses, records, nReq, last, run, cleared, inflight>>

\* mw.Header().Values(key)
WHeaderValues(key) ==
    /\ wcall.calls < MaxWriterCalls
    /\ wcall' = [WCall("Header.Values", <<key>>, 0, NoErr)
                    EXCEPT !.values = mwHeaderValues(writer, key)]
    /\ UNCHANGED <<responses, records, nReq, last, run, cleared, inflight,
                   writer>>

NextWriter ==
    \/ \E data \in WriterData : WWrite(data)
    \/ \E statusCode \in WriterStatuses : WWriteHeader(statusCode)
    \/ \E key \in RawKeys : WHeadersAdd(key, "v")
    \/ WHeaderSet("Content-Type", "text/plain")
    \/ WHeaderValues("Content-Type")

SpecWriter == InitWriter /\ [][NextWriter]_vars

(***************************************************************************)
(* ServeHTTP statement by statement.  inflight[h] is the invocation that   *)
(* goroutine h runs: pc is the statement it is about to execute, id the    *)
(* number of its request, r the request, start the queues and the client   *)
(* sink as they were when it began, mw the targets of its writer (the      *)
(* recorder, then the client sink), rec its serverRecord, response the     *)
(* response it selected, err the wrapped failure it hands to               *)
(* handleInternalError, loadedResponses and loadedRecords the value of     *)
(* srv.responses, resp. srv.records, that it read and has not yet written  *)
(* back.                                                                   *)
(***************************************************************************)
\* No handler is running: the driving test is between two requests.
Quiet == \A h \in Handlers : inflight[h].pc = "idle"

\* The record of request id as a handler appends it: its Response is the
\* recorder, in its state of that moment.
Stored(ctx) == [ctx.rec[1] EXCEPT !.Response = ctx.mw[1]]

\* A faulty variant: the record is put in the store when it is created.
Begin_Commits(h, r, w) ==
    /\ inflight[h].pc = "idle"
    /\ nReq < MaxStepRequests
    /\ nReq' = nReq + 1
    /\ records' = Append(records,
                         ServerRecord(nReq + 1, r, NewRecorder, <<>>, NoErr))
    /\ inflight' = [inflight EXCEPT ![h] =
          [pc |-> IF r.ContentType # FormContentType THEN "drain" ELSE "parse",
           id |-> nReq + 1,
           r |-> <<r>>,
           start |-> <<[responses |-> responses, records |-> records,
                        w |-> w]>>,
           mw |-> newMultiTargetHTTPResponseWriter(<<NewRecorder, w>>),
           rec |-> <<ServerRecord(nReq + 1, r, NewRecorder, <<>>, NoErr)>>,
           response |-> <<>>,
           err |-> NoErr,
           loadedResponses |-> <<>>,
           loadedRecords |-> <<>>]]
    /\ UNCHANGED <<responses, last, run, cleared, writer, wcall>>

\* The recorder, the record, the writer and the tee are created.
Enter(h, r, w) ==
    /\ inflight[h].pc = "idle"
    /\ nReq' = nReq + 1
    /\ inflight' = [inflight EXCEPT ![h] =
          [pc |-> IF r.ContentType # FormContentType THEN "drain" ELSE "parse",
           id |-> nReq + 1,
           r |-> <<r>>,
           start |-> <<[responses |-> responses, records |-> records,
                        w |-> w]>>,
           mw |-> newMultiTargetHTTPResponseWriter(<<NewRecorder, w>>),
           rec |-> <<ServerRecord(nReq + 1, r, NewRecorder, <<>>, NoErr)>>,
           response |-> <<>>,
           err |-> NoErr,
           loadedResponses |-> <<>>,
           loadedRecords |-> <<>>]]
    /\ UNCHANGED <<responses, records, last, run, cleared, writer, wcall>>

\* One more request of the behaviour enters ServeHTTP.
Begin(h, r, w) == nReq < MaxStepRequests /\ Enter(h, r, w)

\* io.ReadAll(r.Body) when the content type is not the form one.
DrainBody(h) ==
    /\ inflight[h].pc = "drain"
    /\ LET c == inflight[h]
           rd == ReadAll(c.r[1])
           rec1 == [c.rec[1] EXCEPT !.RequestBody = rd.data]
       IN  inflight' = [inflight EXCEPT ![h] =
              IF rd.err # NoErr
              THEN [c EXCEPT !.rec = <<rec1>>,
                             !.err = Errorf(ReadBodyPrefix, rd.err),
                             !.pc = "seterr"]
              ELSE [c EXCEPT !.rec = <<rec1>>, !.pc = "parse"]]
    /\ UNCHANGED <<responses, records, nReq, last, run, cleared, writer, wcall>>

\* r.ParseForm()
DoParseForm(h) ==
    /\ inflight[h].pc = "parse"
    /\ LET c == inflight[h]
           pf == ParseForm(c.r[1], c.r[1].ContentType # FormContentType)
           rec2 == [c.rec[1] EXCEPT !.RequestBody = @ \o pf.read]
       IN  inflight' = [inflight EXCEPT ![h] =
              IF pf.err # NoErr
              THEN [c EXCEPT !.rec = <<rec2>>,
                             !.err = Errorf(ParseFormPrefix, pf.err),
                             !.pc = "seterr"]
              ELSE [c EXCEPT !.rec = <<rec2>>, !.pc = "select"]]
    /\ UNCHANGED <<responses, records, nReq, last, run, cleared, writer, wcall>>

\* The default response, or the first of the queue if there is one.
Select(h) ==
    /\ inflight[h].pc = "select"
    /\ inflight' = [inflight EXCEPT ![h] =
          [@ EXCEPT !.response = <<SelectResponse(responses)>>,
                    !.pc = "pop"]]
    /\ UNCHANGED <<responses, records, nReq, last, run, cleared, writer, wcall>>

\* The response used is popped if there is more than one.
PopUsed(h) ==
    /\ inflight[h].pc = "pop"
    /\ responses' = PopUsedResponse(responses)
    /\ inflight' = [inflight EXCEPT ![h] = [@ EXCEPT !.pc = "headers"]]
    /\ UNCHANGED <<records, nReq, last, run, cleared, writer, wcall>>

\* A faulty variant: the status is written before the headers are added.
WriteHeaders_StatusFirst(h) ==
    /\ inflight[h].pc = "headers"
    /\ LET c == inflight[h]
           mw1 == mwWriteHeader(c.mw, c.response[1].Status)
       IN  inflight' = [inflight EXCEPT ![h] =
              [c EXCEPT !.mw = WriteResponseHeaders(mw1,
                                                    c.response[1].Headers,
                                                    RawKeys),
                        !.pc = "body"]]
    /\ UNCHANGED <<responses, records, nReq, last, run, cleared, writer, wcall>>

\* A faulty variant: the response emitted is read from the queue again, the
\* default response when the queue is empty.
WriteHeaders_Rereads(h) ==
    /\ inflight[h].pc = "headers"
    /\ LET c == inflight[h]
           again == IF responses = <<>> THEN DefaultResponse ELSE c.response[1]
       IN  inflight' = [inflight EXCEPT ![h] =
              [c EXCEPT !.response = <<again>>,
                        !.mw = WriteResponseHeaders(c.mw, again.Headers,
                                                    RawKeys),
                        !.pc = "status"]]
    /\ UNCHANGED <<responses, records, nReq, last, run, cleared, writer, wcall>>

\* mw.headersAdd for each value of each header of the response.
WriteHeaders(h) ==
    /\ inflight[h].pc = "headers"
    /\ LET c == inflight[h]
       IN  inflight' = [inflight EXCEPT ![h] =
              [c EXCEPT !.mw = WriteResponseHeaders(c.mw,
                                                    c.response[1].Headers,
                                                    RawKeys),
                        !.pc = "status"]]
    /\ UNCHANGED <<responses, records, nReq, last, run, cleared, writer, wcall>>

\* mw.WriteHeader(response.Status)
WriteStatus(h) ==
    /\ inflight[h].pc = "status"
    /\ LET c == inflight[h]
       IN  inflight' = [inflight EXCEPT ![h] =
              [c EXCEPT !.mw = mwWriteHeader(c.mw, c.response[1].Status),
                        !.pc = "body"]]
    /\ UNCHANGED <<responses, records, nReq, last, run, cleared, writer, wcall>>

\* A faulty variant: a body write that failed is tried again.
WriteBody_Retries(h) ==
    /\ inflight[h].pc = "body"
    /\ LET c == inflight[h]
           wr == IF Len(c.response[1].Body) > 0
                 THEN mwWrite(c.mw, c.response[1].Body)
                 ELSE [targets |-> c.mw, n |-> 0, err |-> NoErr]
       IN  inflight' = [inflight EXCEPT ![h] =
              IF wr.err # NoErr
              THEN [c EXCEPT !.mw = wr.targets]
              ELSE [c EXCEPT !.mw = wr.targets, !.pc = "commit"]]
    /\ UNCHANGED <<responses, records, nReq, last, run, cleared, writer, wcall>>

\* mw.Write(response.Body) if the body is not empty.
WriteBody(h) ==
    /\ inflight[h].pc = "body"
    /\ LET c == inflight[h]
           wr == IF Len(c.response[1].Body) > 0
                 THEN mwWrite(c.mw, c.response[1].Body)
                 ELSE [targets |-> c.mw, n |-> 0, err |-> NoErr]
       IN  inflight' = [inflight EXCEPT ![h] =
              IF wr.err # NoErr
              THEN [c EXCEPT !.mw = wr.targets,
                             !.err = Errorf(WriteResponsePrefix, wr.err),
                             !.pc = "seterr"]
              ELSE [c EXCEPT !.mw = wr.targets, !.pc = "commit"]]
    /\ UNCHANGED <<responses, records, nReq, last, run, cleared, writer, wcall>>

\* srv.records = append(srv.records, serverRecord)
Commit(h) ==
    /\ inflight[h].pc = "commit"
    /\ records' = Append(records, Stored(inflight[h]))
    /\ inflight' = [inflight EXCEPT ![h] = [@ EXCEPT !.pc = "done"]]
    /\ UNCHANGED <<responses, nReq, last, run, cleared, writer, wcall>>

\* handleInternalError: serverRecord.ServerError = err
SetError(h) ==
    /\ inflight[h].pc = "seterr"
    /\ LET c == inflight[h]
       IN  inflight' = [inflight EXCEPT ![h] =
              [c EXCEPT !.rec = <<[c.rec[1] EXCEPT !.ServerError = c.err]>>,
                        !.pc = "appendfailed"]]
    /\ UNCHANGED <<responses, records, nReq, last, run, cleared, writer, wcall>>

\* A faulty variant: the failed record is not put in the store.
AppendFailed_Skips(h) ==
    /\ inflight[h].pc = "appendfailed"
    /\ inflight' = [inflight EXCEPT ![h] = [@ EXCEPT !.pc = "errheader"]]
    /\ UNCHANGED <<responses, records, nReq, last, run, cleared, writer,
                   wcall>>

\* handleInternalError: hts.records = append(hts.records, serverRecord)
AppendFailed(h) ==
    /\ inflight[h].pc = "appendfailed"
    /\ records' = Append(records, Stored(inflight[h]))
    /\ inflight' = [inflight EXCEPT ![h] = [@ EXCEPT !.pc = "errheader"]]
    /\ UNCHANGED <<responses, nReq, last, run, cleared, writer, wcall>>

\* handleInternalError: w.Header().Set("Content-Type", "text/plain")
ErrContentType(h) ==
    /\ inflight[h].pc = "errheader"
    /\ LET c == inflight[h]
           mw1 == mwHeaderSet(c.mw, "Content-Type", "text/plain")
       IN  /\ inflight' = [inflight EXCEPT ![h] =
                 [c EXCEPT !.mw = mw1, !.pc = "errstatus"]]
           /\ records' = SyncRecorder(records, c.id, mw1[1])
    /\ UNCHANGED <<responses, nReq, last, run, cleared, writer, wcall>>

\* handleInternalError: w.WriteHeader(http.StatusInternalServerError)
ErrStatus(h) ==
    /\ inflight[h].pc = "errstatus"
    /\ LET c == inflight[h]
           mw1 == mwWriteHeader(c.mw, StatusInternalServerError)
       IN  /\ inflight' = [inflight EXCEPT ![h] =
                 [c EXCEPT !.mw = mw1, !.pc = "errbody"]]
           /\ records' = SyncRecorder(records, c.id, mw1[1])
    /\ UNCHANGED <<responses, nReq, last, run, cleared, writer, wcall>>

\* handleInternalError: w.Write([]byte(err.Error()))
ErrBody(h) ==
    /\ inflight[h].pc = "errbody"
    /\ LET c == inflight[h]
           mw1 == mwWrite(c.mw, ErrorText(c.err)).targets
       IN  /\ inflight' = [inflight EXCEPT ![h] =
                 [c EXCEPT !.mw = mw1, !.pc = "done"]]
           /\ records' = SyncRecorder(records, c.id, mw1[1])
    /\ UNCHANGED <<responses, nReq, last, run, cleared, writer, wcall>>

\* ServeHTTP returns.
Return(h) ==
    /\ inflight[h].pc = "done"
    /\ inflight' = [inflight EXCEPT ![h] = IdleHandler]
    /\ UNCHANGED <<responses, records, nReq, last, run, cleared, writer, wcall>>

\* The client connections of the requests followed statement by statement:
\* those of ClientSinkPool and one that already holds a value of a header
\* the predefined responses add to.
StepSinkPool ==
    ClientSinkPool \cup
        { NewSink([EmptyHeader EXCEPT !["X-Tag"] = <<"t">>], <<>>) }

\* The driving test sends a request, or pushes a response, only when no
\* handler is running.
BeginAlone(h, r, w) == Quiet /\ Begin(h, r, w)
PushBetween(resp) == Quiet /\ Push(resp)

NextSteps ==
    \/ \E resp \in ResponsePool : PushBetween(resp)
    \/ \E h \in Handlers, r \in RequestPool, w \in StepSinkPool :
          BeginAlone(h, r, w)
    \/ \E h \in Handlers :
          \/ DrainBody(h)
          \/ DoParseForm(h)
          \/ Select(h)
          \/ PopUsed(h)
          \/ WriteHeaders(h)
          \/ WriteStatus(h)
          \/ WriteBody(h)
          \/ Commit(h)
          \/ SetError(h)
          \/ AppendFailed(h)
          \/ ErrContentType(h)
          \/ ErrStatus(h)
          \/ ErrBody(h)
          \/ Return(h)

SpecSteps == Init /\ [][NextSteps]_vars

\* A statement of the invocation that goroutine h runs.
HandlerStep(h) ==
    \/ DrainBody(h)
    \/ DoParseForm(h)
    \/ Select(h)
    \/ PopUsed(h)
    \/ WriteHeaders(h)
    \/ WriteStatus(h)
    \/ WriteBody(h)
    \/ Commit(h)
    \/ SetError(h)
    \/ AppendFailed(h)
    \/ ErrContentType(h)
    \/ ErrStatus(h)
    \/ ErrBody(h)

\* Every body read, form parse and sink write returns, and a goroutine that
\* can run its next statement eventually runs it.
SpecStepsFair ==
    SpecSteps /\ \A h \in Handlers : WF_vars(HandlerStep(h))

(***************************************************************************)
(* ServeHTTP run by several goroutines at once.  Nothing locks             *)
(* srv.responses and srv.records: each read and each write of one of them  *)
(* is a step of its own, and the steps of the goroutines interleave.       *)
(***************************************************************************)
\* response := default; if len(srv.responses) >= 1
CheckAny(h) ==
    /\ inflight[h].pc = "select"
    /\ inflight' = [inflight EXCEPT ![h] =
          [@ EXCEPT !.response = <<DefaultResponse>>,
                    !.pc = IF Len(responses) >= 1 THEN "head"
                           ELSE "checkmore"]]
    /\ UNCHANGED <<responses, records, nReq, last, run, cleared, writer, wcall>>

\* A faulty variant: the response read is the last of the queue.
ReadHead_Last(h) ==
    /\ inflight[h].pc = "head"
    /\ inflight' = [inflight EXCEPT ![h] =
          IF responses = <<>>
          THEN [@ EXCEPT !.pc = "panicked"]
          ELSE [@ EXCEPT !.response = <<responses[Len(responses)]>>,
                         !.pc = "checkmore"]]
    /\ UNCHANGED <<responses, records, nReq, last, run, cleared, writer, wcall>>

\* response = srv.responses[0]: index out of range on an empty queue
ReadHead(h) ==
    /\ inflight[h].pc = "head"
    /\ inflight' = [inflight EXCEPT ![h] =
          IF responses = <<>>
          THEN [@ EXCEPT !.pc = "panicked"]
          ELSE [@ EXCEPT !.response = <<responses[1]>>,
                         !.pc = "checkmore"]]
    /\ UNCHANGED <<responses, records, nReq, last, run, cleared, writer, wcall>>

\* A faulty variant: the used response is removed also when it is the only
\* one.
CheckMore_Always(h) ==
    /\ inflight[h].pc = "checkmore"
    /\ inflight' = [inflight EXCEPT ![h] =
          [@ EXCEPT !.pc = IF Len(responses) >= 1 THEN "reslice"
                           ELSE "headers"]]
    /\ UNCHANGED <<responses, records, nReq, last, run, cleared, writer, wcall>>

\* if len(srv.responses) > 1
CheckMore(h) ==
    /\ inflight[h].pc = "checkmore"
    /\ inflight' = [inflight EXCEPT ![h] =
          [@ EXCEPT !.pc = IF Len(responses) > 1 THEN "reslice"
                           ELSE "headers"]]
    /\ UNCHANGED <<responses, records, nReq, last, run, cleared, writer, wcall>>

\* A faulty variant: the slice from 1 of an empty queue is the empty queue.
ResliceLoad_EmptyTail(h) ==
    /\ inflight[h].pc = "reslice"
    /\ inflight' = [inflight EXCEPT ![h] =
          IF responses = <<>>
          THEN [@ EXCEPT !.pc = "headers"]
          ELSE [@ EXCEPT !.loadedResponses = responses,
                         !.pc = "reslicestore"]]
    /\ UNCHANGED <<responses, records, nReq, last, run, cleared, writer, wcall>>

\* srv.responses[1:]: slice bounds out of range on an empty queue
ResliceLoad(h) ==
    /\ inflight[h].pc = "reslice"
    /\ inflight' = [inflight EXCEPT ![h] =
          IF responses = <<>>
          THEN [@ EXCEPT !.pc = "panicked"]
          ELSE [@ EXCEPT !.loadedResponses = responses,
                         !.pc = "reslicestore"]]
    /\ UNCHANGED <<responses, records, nReq, last, run, cleared, writer, wcall>>

\* srv.responses = the slice computed
ResliceStore(h) ==
    /\ inflight[h].pc = "reslicestore"
    /\ responses' = Tail(inflight[h].loadedResponses)
    /\ inflight' = [inflight EXCEPT ![h] =
          [@ EXCEPT !.loadedResponses = <<>>, !.pc = "headers"]]
    /\ UNCHANGED <<records, nReq, last, run, cleared, writer, wcall>>

\* The store holds pointers to the records: the records of a slice read
\* earlier are, when the slice is written back, what the pointers lead to.
Deref(loaded) ==
    [i \in DOMAIN loaded |->
        IF \E j \in DOMAIN records : records[j].id = loaded[i].id
        THEN records[CHOOSE j \in DOMAIN records : records[j].id = loaded[i].id]
        ELSE loaded[i]]

\* append(srv.records, serverRecord): srv.records is read
CommitLoad(h) ==
    /\ inflight[h].pc = "commit"
    /\ inflight' = [inflight EXCEPT ![h] =
          [@ EXCEPT !.loadedRecords = records, !.pc = "commitstore"]]
    /\ UNCHANGED <<responses, records, nReq, last, run, cleared, writer, wcall>>

\* A faulty variant: the record is stored in front of the records read.
CommitStore_Front(h) ==
    /\ inflight[h].pc = "commitstore"
    /\ records' = <<Stored(inflight[h])>> \o Deref(inflight[h].loadedRecords)
    /\ inflight' = [inflight EXCEPT ![h] =
          [@ EXCEPT !.loadedRecords = <<>>, !.pc = "done"]]
    /\ UNCHANGED <<responses, nReq, last, run, cleared, writer, wcall>>

\* srv.records = the slice appended to
CommitStore(h) ==
    /\ inflight[h].pc = "commitstore"
    /\ records' = Append(Deref(inflight[h].loadedRecords), Stored(inflight[h]))
    /\ inflight' = [inflight EXCEPT ![h] =
          [@ EXCEPT !.loadedRecords = <<>>, !.pc = "done"]]
    /\ UNCHANGED <<responses, nReq, last, run, cleared, writer, wcall>>

\* handleInternalError: append(hts.records, serverRecord), hts.records is read
FailLoad(h) ==
    /\ inflight[h].pc = "appendfailed"
    /\ inflight' = [inflight EXCEPT ![h] =
          [@ EXCEPT !.loadedRecords = records, !.pc = "failstore"]]
    /\ UNCHANGED <<responses, records, nReq, last, run, cleared, writer, wcall>>

\* handleInternalError: hts.records = the slice appended to
FailStore(h) ==
    /\ inflight[h].pc = "failstore"
    /\ records' = Append(Deref(inflight[h].loadedRecords), Stored(inflight[h]))
    /\ inflight' = [inflight EXCEPT ![h] =
          [@ EXCEPT !.loadedRecords = <<>>, !.pc = "errheader"]]
    /\ UNCHANGED <<responses, nReq, last, run, cleared, writer, wcall>>

\* The statements that touch neither queue, on the way to success.
EmitStep(h) ==
    \/ DrainBody(h)
    \/ DoParseForm(h)
    \/ WriteHeaders(h)
    \/ WriteStatus(h)
    \/ WriteBody(h)
    \/ Return(h)

\* The statements of a failure: the step into handleInternalError and
\* handleInternalError.
FailStep(h) ==
    \/ SetError(h)
    \/ FailLoad(h)
    \/ FailStore(h)
    \/ ErrContentType(h)
    \/ ErrStatus(h)
    \/ ErrBody(h)

\* The two length checks of the response queue.
CheckStep(h) == CheckAny(h) \/ CheckMore(h)

\* The read of the head and the removal of the head.
HeadStep(h) ==
    \/ ReadHead(h)
    \/ ResliceLoad(h)
    \/ ResliceStore(h)

\* The append of the record of a success.
CommitStep(h) == CommitLoad(h) \/ CommitStore(h)

\* The test pushes its responses before it sends requests.
PushFirst(resp) == nReq = 0 /\ Push(resp)

\* The http server runs a handler per connection: a request enters while
\* another is in flight.  Which goroutine runs a handler makes no
\* difference: the request takes the first that is free.
EnterFree(h, r, w) ==
    /\ \A g \in Handlers : g < h => inflight[g].pc # "idle"
    /\ Enter(h, r, w)

BeginConc(h, r, w) == nReq < MaxConcRequests /\ EnterFree(h, r, w)

\* The requests and the client connections of the concurrent invocations:
\* requests that succeed on a connection whose writes succeed.
ConcRequestPool ==
    { NewRequest("POST", "application/json", <<"p">>, NoErr, TRUE) }

ConcSinkPool == { NewSink(EmptyHeader, <<>>) }

\* Concurrent requests served from a queue filled beforehand.
NextConc ==
    \/ \E resp \in ResponsePool : PushFirst(resp)
    \/ \E h \in Handlers, r \in ConcRequestPool, w \in ConcSinkPool :
          BeginConc(h, r, w)
    \/ \E h \in Handlers : EmitStep(h)
    \/ \E h \in Handlers : CheckStep(h)
    \/ \E h \in Handlers : HeadStep(h)
    \/ \E h \in Handlers : CommitStep(h)

SpecConc == Init /\ [][NextConc]_vars

(***************************************************************************)
(* Appends to the record store by concurrent invocations, and a            *)
(* PopServerRecord of the test while they run.                             *)
(***************************************************************************)
\* PopServerRecord: hts.records is read.  The test pops once.
PopLoad ==
    /\ last.op = "New"
    /\ last' = IF Len(records) >= 1
               THEN Call("PopLoad", <<records[1]>>, records)
               ELSE Call("Pop", <<>>, <<>>)
    /\ UNCHANGED <<responses, records, nReq, run, cleared, inflight, writer, wcall>>

\* PopServerRecord: hts.records is written.
PopStore ==
    /\ last.op = "PopLoad"
    /\ records' = Deref(Tail(last.serve))
    /\ last' = Call("Pop", last.popped, <<>>)
    /\ UNCHANGED <<responses, nReq, run, cleared, inflight, writer, wcall>>

\* Requests that succeed and requests whose body read fails.
AppendRequestPool ==
    ConcRequestPool \cup
        { NewRequest("POST", "application/json", <<>>, ErrPwned, TRUE) }

BeginAppend(h, r, w) == nReq < MaxAppendRequests /\ EnterFree(h, r, w)

\* Concurrent requests, no response queued.
NextAppend ==
    \/ \E h \in Handlers, r \in AppendRequestPool, w \in ConcSinkPool :
          BeginAppend(h, r, w)
    \/ \E h \in Handlers : EmitStep(h)
    \/ \E h \in Handlers : FailStep(h)
    \/ \E h \in Handlers : CheckStep(h)
    \/ \E h \in Handlers : CommitStep(h)
    \/ PopLoad
    \/ PopStore

SpecAppend == Init /\ [][NextAppend]_vars

(***************************************************************************)
(* One invocation at a time, and the clears of the test while it runs.     *)
(* A clear is one write of an empty slice.  A panic of the handler is      *)
(* recovered by the http server, which drops the connection: the           *)
(* invocation ends there.                                                  *)
(***************************************************************************)
Recover(h) ==
    /\ inflight[h].pc = "panicked"
    /\ inflight' = [inflight EXCEPT ![h] = IdleHandler]
    /\ UNCHANGED <<responses, records, nReq, last, run, cleared, writer, wcall>>

NextClear ==
    \/ \E resp \in ResponsePool : PushBetween(resp)
    \/ \E r \in AppendRequestPool, w \in ConcSinkPool : BeginAlone(1, r, w)
    \/ EmitStep(1)
    \/ FailStep(1)
    \/ CheckStep(1)
    \/ HeadStep(1)
    \/ CommitStep(1)
    \/ Recover(1)
    \/ ClearResponses
    \/ ClearRecords

SpecClear == Init /\ [][NextClear]_vars

\* The statements, run one after the other, do what ServeHTTP does as a
\* whole.
StepsAgree ==
    \A h \in Handlers :
        inflight[h].pc = "done" =>
            LET c == inflight[h]
                out == ServeHTTP(c.start[1].responses, c.start[1].records,
                                 c.start[1].w, c.r[1], c.id)
            IN  /\ responses = out.responses
                /\ records = out.records
                /\ c.mw[2] = out.w
                /\ c.response = out.selected
                /\ (c.err = NoErr) = (out.ended = "success")

(***************************************************************************)
(* Vocabulary of the properties.                                           *)
(***************************************************************************)
Served == last.op = "ServeHTTP"

\* The last handler invocation (when Served).
S == last.serve[1]

\* The record committed for the request handled last (when Served).
LastRecords == SelectSeq(records, LAMBDA rec : rec.id = nReq)

Min(a, b) == IF a < b THEN a ELSE b

\* What the handler offered to a sink in its Write calls, delivered or not.
RECURSIVE JoinOffered(_)
JoinOffered(ws) ==
    IF ws = <<>> THEN <<>> ELSE Head(ws).data \o JoinOffered(Tail(ws))

\* A step of the behaviour that handles a request.
ServeStep == nReq' = nReq + 1

\* The client sink w, which started as w0, received exactly the response
\* resp: its status, each of its header values after those the sink already
\* held, and its body.
Receives(w0, w, resp) ==
    /\ SinkStatus(w) = resp.Status
    /\ SinkBody(w) = resp.Body
    /\ \A k \in HeaderKeys :
         SinkSentHeader(w)[k] =
            w0.header[k] \o
            (IF \E rk \in RawKeys : CanonicalKey(rk) = k
             THEN resp.Headers[CHOOSE rk \in RawKeys : CanonicalKey(rk) = k]
             ELSE <<>>)

\* The request input makes the body read, resp. the form parse, fail.
BodyReadFails(r) == r.ContentType # FormContentType /\ r.ReadErr # NoErr
FormParseFails(r) ==
    /\ ~BodyReadFails(r)
    /\ \/ ~r.QueryOK
       \/ r.ContentType = FormContentType /\ r.ReadErr # NoErr

(***************************************************************************)
(* C1.  Sticky FIFO consumption, as claimed: after N >= 2 pushes on an     *)
(* empty queue, the j-th of the requests that follow receives response     *)
(* min(j, N) of the push order.  Only requests on a client connection     *)
(* whose writes succeed are held to it, so a connection that refuses the   *)
(* bytes does not count against the claim.                                 *)
(***************************************************************************)
C1_AsClaimed ==
    (Served /\ run.valid /\ Len(run.pushed) >= 2 /\ S.w0.fail = <<>>)
        => Receives(S.w0, S.w,
                    run.pushed[Min(run.handled, Len(run.pushed))])

\* C1 as amended: after N >= 2 pushes on an empty queue, the j-th of the
\* following requests whose body read and form parse succeed is served
\* response min(j, N) of the push order, and receives exactly that response
\* when its write succeeds; a request that fails in the body read or the
\* form parse is served no response and leaves the queue as it was.
C1_StickyFifo ==
    (Served /\ run.valid /\ Len(run.pushed) >= 2) =>
        LET N == Len(run.pushed)
            j == run.reached
        IN  IF BodyReadFails(S.req) \/ FormParseFails(S.req)
            THEN /\ S.selected = <<>>
                 /\ responses =
                       SubSeq(run.pushed, Min(j + 1, N), N)
            ELSE /\ j >= 1
                 /\ S.selected = <<run.pushed[Min(j, N)]>>
                 /\ responses = SubSeq(run.pushed, Min(j + 1, N), N)
                 /\ S.ended = "success" =>
                       Receives(S.w0, S.w, run.pushed[Min(j, N)])

\* The last response is replayed: more requests were served than responses
\* were pushed.
C1_Witness ==
    /\ Served /\ run.valid /\ Len(run.pushed) >= 2
    /\ run.reached > Len(run.pushed)
    /\ S.ended = "success"

(***************************************************************************)
(* C2.  Every handler invocation appends exactly one record, at the tail   *)
(* of the store, whether it succeeds or fails.                             *)
(***************************************************************************)
C2_OneRecordPerRequest ==
    [][ServeStep =>
          /\ Len(records') = Len(records) + 1
          /\ SubSeq(records', 1, Len(records)) = records
          /\ records'[Len(records')].id = nReq'
          /\ records'[Len(records')].Request = last'.serve[1].req]_vars

\* The store holds the records of a body read failure, a form parse failure
\* and a response write failure.
C2_Witness ==
    /\ Served
    /\ {ReadBodyPrefix, ParseFormPrefix, WriteResponsePrefix} \subseteq
          {records[i].ServerError.prefix : i \in DOMAIN records}

(***************************************************************************)
(* C3.  With an empty response queue, a request whose body read and form   *)
(* parse succeed receives status 404, no predefined header and an empty    *)
(* body; the queue stays empty and one record is appended.                 *)
(***************************************************************************)
C3_EmptyQueueDefault ==
    [][(ServeStep /\ responses = <<>>
        /\ ~BodyReadFails(last'.serve[1].req)
        /\ ~FormParseFails(last'.serve[1].req)) =>
          /\ SinkStatus(last'.serve[1].w) = StatusNotFound
          /\ SinkBody(last'.serve[1].w) = <<>>
          /\ last'.serve[1].w.writes = <<>>
          /\ SinkSentHeader(last'.serve[1].w) = last'.serve[1].w0.header
          /\ responses' = <<>>
          /\ Len(records') = Len(records) + 1]_vars

\* The default response was served on a connection whose writes would fail.
C3_Witness ==
    /\ Served /\ responses = <<>>
    /\ S.selected # <<>>
    /\ SinkStatus(S.w) = StatusNotFound
    /\ S.w0.fail # <<>>

(***************************************************************************)
(* C4.  The record of a request that failed holds an error that wraps the  *)
(* originating failure behind the prefix of the stage that failed; the     *)
(* record of a request that succeeded holds the nil error.                 *)
(***************************************************************************)
C4_FailureIsRecorded ==
    Served =>
        /\ Len(LastRecords) = 1
        /\ LET err == LastRecords[1].ServerError
           IN  /\ BodyReadFails(S.req) =>
                     /\ err.prefix = ReadBodyPrefix
                     /\ Unwrap(err) = S.req.ReadErr
               /\ FormParseFails(S.req) =>
                     /\ err.prefix = ParseFormPrefix
                     /\ Unwrap(err) \in {ErrBadQuery, ErrPwned}
                     /\ Unwrap(err) = ErrBadQuery => ~S.req.QueryOK
               /\ S.ended = "write" =>
                     /\ err.prefix = WriteResponsePrefix
                     /\ Unwrap(err) = ErrSinkWrite
                     /\ \E i \in DOMAIN S.w.writes : ~S.w.writes[i].ok
               /\ S.ended = "success" => err = NoErr
               /\ err = NoErr => S.ended = "success"

\* A response write failure was recorded.
C4_Witness ==
    /\ Served /\ S.ended = "write"
    /\ Len(LastRecords) = 1
    /\ LastRecords[1].ServerError.prefix = WriteResponsePrefix

(***************************************************************************)
(* C5.  Uniform error response, as claimed: after a body read failure, a   *)
(* form parse failure or a response write failure the client sink has      *)
(* status 500 and, as its body, the text of the failure.  The body is      *)
(* taken as what the handler offered to the sink, so a connection that     *)
(* refuses the bytes does not count against the handler.                   *)
(***************************************************************************)
C5_AsClaimed ==
    (Served /\ S.ended # "success") =>
        /\ Len(LastRecords) = 1
        /\ SinkStatus(S.w) = StatusInternalServerError
        /\ JoinOffered(S.w.writes) = ErrorText(LastRecords[1].ServerError)

(***************************************************************************)
(* C6.  Error content type, as claimed: whenever status 500 is written to  *)
(* the client sink on a failure, the sink's header map holds               *)
(* Content-Type: text/plain at that moment, as the recorder's does.        *)
(***************************************************************************)
C6_AsClaimed ==
    (Served /\ S.ended # "success") =>
        \A i \in DOMAIN S.w.statuses :
            S.w.statuses[i].code = StatusInternalServerError =>
                S.w.statuses[i].header["Content-Type"] = <<"text/plain">>

(***************************************************************************)
(* C7.  PopServerRecord on an empty store returns nil and leaves the store *)
(* empty; on a non-empty store it returns the oldest record and removes    *)
(* exactly that one, the others keeping their order.                       *)
(***************************************************************************)
C7_PopServerRecord ==
    [][last'.op = "Pop" =>
          IF records = <<>>
          THEN last'.popped = <<>> /\ records' = <<>>
          ELSE /\ last'.popped = <<Head(records)>>
               /\ records' = Tail(records)
               /\ Len(records') = Len(records) - 1]_vars

\* A record was popped from a store that held several.
C7_Witness ==
    /\ last.op = "Pop"
    /\ last.popped # <<>>
    /\ Len(records) >= 2

(***************************************************************************)
(* C8.  Records leave the store in the order in which their requests were  *)
(* handled: the store is ordered by handling order, a pop returns a record *)
(* handled before all those that remain, and of two successive pops the    *)
(* second returns the record handled later; failed requests included.      *)
(***************************************************************************)
C8_RecordFifo ==
    /\ [](\A i, j \in DOMAIN records : i < j => records[i].id < records[j].id)
    /\ []((last.op = "Pop" /\ last.popped # <<>>) =>
            \A i \in DOMAIN records : last.popped[1].id < records[i].id)
    /\ [][(last.op = "Pop" /\ last'.op = "Pop"
           /\ last.popped # <<>> /\ last'.popped # <<>>) =>
             last.popped[1].id < last'.popped[1].id]_vars

\* The record of a failed request was popped before the record of a later,
\* successful one.
C8_Witness ==
    /\ last.op = "Pop" /\ last.popped # <<>>
    /\ last.popped[1].ServerError # NoErr
    /\ \E i \in DOMAIN records : records[i].ServerError = NoErr
    /\ \E i \in DOMAIN records : records[i].ServerError # NoErr

(***************************************************************************)
(* C9.  Without a clear of the responses, a non-empty response queue never *)
(* becomes empty; a request removes the head only if more than one         *)
(* response is queued, and removes at most one.                            *)
(***************************************************************************)
C9_StickyQueue ==
    [][last'.op \notin {"ClearResponses", "Clear"} =>
          /\ responses # <<>> => responses' # <<>>
          /\ ServeStep =>
                \/ responses' = responses
                \/ Len(responses) > 1 /\ responses' = Tail(responses)]_vars

\* The only response queued was served twice and is still queued.
C9_Witness ==
    /\ Served /\ run.valid
    /\ Len(run.pushed) = 1 /\ run.reached >= 2
    /\ responses = run.pushed

(***************************************************************************)
(* C10.  Clear of the responses, as claimed: after it, and until a         *)
(* response is pushed, every request receives status 404 and an empty      *)
(* body.                                                                   *)
(***************************************************************************)
C10_AsClaimed ==
    (Served /\ cleared) =>
        /\ SinkStatus(S.w) = StatusNotFound
        /\ JoinOffered(S.w.writes) = <<>>

\* C10 as amended: after a clear of the responses, and until a response is
\* pushed, the queue is empty and every request whose body read and form
\* parse succeed receives status 404 and an empty body (a request that
\* fails in one of them gets status 500).
C10_ClearResets ==
    (Served /\ cleared) =>
        /\ responses = <<>>
        /\ IF BodyReadFails(S.req) \/ FormParseFails(S.req)
           THEN SinkStatus(S.w) = StatusInternalServerError
           ELSE /\ SinkStatus(S.w) = StatusNotFound
                /\ S.w.writes = <<>>
                /\ S.selected = <<DefaultResponse>>

\* Two requests were served the same single response, the responses were
\* cleared, and the next request got the default response.
C10_Witness ==
    /\ Served /\ cleared
    /\ Len(records) = 3
    /\ SinkStatus(records[1].Response) = StatusOK
    /\ SinkStatus(records[2].Response) = StatusOK
    /\ SinkStatus(records[3].Response) = StatusNotFound
    /\ SinkStatus(S.w) = StatusNotFound

(***************************************************************************)
(* C11.  Queue independence: ClearServerRecords and PopServerRecord leave  *)
(* the response queue, and so the response the next request is served,     *)
(* unchanged; PushPredefinedServerResponse and                             *)
(* ClearPredefinedServerResponses leave the record store unchanged.        *)
(***************************************************************************)
C11_QueueIndependence ==
    [][/\ last'.op \in {"Pop", "ClearRecords"} =>
            /\ responses' = responses
            /\ SelectResponse(responses') = SelectResponse(responses)
       /\ last'.op \in {"Push", "ClearResponses"} =>
            records' = records]_vars

\* The records were cleared while responses were queued and requests had
\* been handled.
C11_Witness ==
    /\ last.op = "ClearRecords"
    /\ Len(responses) >= 2
    /\ nReq >= 2
    /\ records = <<>>

(***************************************************************************)
(* C12.  On a successful request the client sink receives exactly the      *)
(* response at the head of the queue (the default one when the queue is    *)
(* empty): its status, once; each of its header values; its body, in one   *)
(* write if it is not empty; nothing of any other queued response.         *)
(***************************************************************************)
C12_SuccessOutput ==
    [][(ServeStep /\ last'.serve[1].ended = "success") =>
          LET n == last'.serve[1]
              head == IF responses = <<>> THEN DefaultResponse
                      ELSE Head(responses)
          IN  /\ Receives(n.w0, n.w, head)
              /\ Len(n.w.statuses) = 1
              /\ n.w.header = SinkSentHeader(n.w)
              /\ n.w.writes =
                    IF head.Body = <<>> THEN <<>>
                    ELSE <<[data |-> head.Body, ok |-> TRUE]>>]_vars

\* A response with headers and a body was served while another was queued
\* behind it.
C12_Witness ==
    /\ Served /\ S.ended = "success"
    /\ S.selected = <<RespA>>
    /\ responses = <<RespB>>
    /\ run.valid /\ run.pushed = <<RespA, RespB>>

(***************************************************************************)
(* C13.  For a request that ends in success the response held in its       *)
(* record equals what was written to the client sink: the same status      *)
(* writes, the same headers added, the same body writes.                   *)
(***************************************************************************)
C13_RecordMirrorsSent ==
    (Served /\ S.ended = "success") =>
        /\ Len(LastRecords) = 1
        /\ LET rr == LastRecords[1].Response
           IN  /\ [i \in DOMAIN rr.statuses |-> rr.statuses[i].code] =
                     [i \in DOMAIN S.w.statuses |-> S.w.statuses[i].code]
               /\ SinkStatus(rr) = SinkStatus(S.w)
               /\ rr.writes = S.w.writes
               /\ SinkBody(rr) = SinkBody(S.w)
               /\ \A k \in HeaderKeys :
                     /\ S.w.header[k] = S.w0.header[k] \o rr.header[k]
                     /\ SinkSentHeader(S.w)[k] =
                           S.w0.header[k] \o SinkSentHeader(rr)[k]

\* A response with headers and a body was sent and recorded.
C13_Witness ==
    /\ Served /\ S.ended = "success"
    /\ Len(LastRecords) = 1
    /\ SinkBody(LastRecords[1].Response) = RespA.Body
    /\ LastRecords[1].Response.header["X-Tag"] = <<"a", "b">>

(***************************************************************************)
(* C15.  A failure ends one request only: the request handled after a      *)
(* failed one is served by the normal queue policy, gets a record of its   *)
(* own behind the records already stored, which stay as they were, and     *)
(* neither the error nor the status 500 of the failed request shows in its *)
(* record or in its response.                                              *)
(***************************************************************************)
C15_FailureIsLocal ==
    [][(ServeStep /\ last.op = "ServeHTTP"
        /\ last.serve[1].ended # "success") =>
          LET n == last'.serve[1]
              head == IF responses = <<>> THEN DefaultResponse
                      ELSE Head(responses)
              rec == records'[Len(records')]
          IN  /\ Len(records') = Len(records) + 1
              /\ SubSeq(records', 1, Len(records)) = records
              /\ rec.id = nReq'
              /\ (~BodyReadFails(n.req) /\ ~FormParseFails(n.req)) =>
                    /\ n.selected = <<head>>
                    /\ responses' = IF Len(responses) > 1
                                    THEN Tail(responses) ELSE responses
                    /\ n.w.statuses[1].code = head.Status
                    /\ rec.Response.statuses[1].code = head.Status
              /\ n.ended = "success" =>
                    /\ Receives(n.w0, n.w, head)
                    /\ rec.ServerError = NoErr
                    /\ \A i \in DOMAIN rec.Response.statuses :
                          rec.Response.statuses[i].code = head.Status
                    /\ SinkBody(rec.Response) = head.Body]_vars

\* A request succeeded right after a request that failed.
C15_Witness ==
    /\ Served /\ S.ended = "success"
    /\ S.selected = <<RespA>>
    /\ \E i \in DOMAIN records :
          /\ records[i].id = nReq - 1
          /\ records[i].ServerError # NoErr

C16_WriteFirstFailureWins ==
    wcall.op = "Write" =>
        LET b == wcall.before
            failing == {i \in DOMAIN b : SinkWriteFails(b[i])}
            f == IF failing = {} THEN Len(b) + 1
                 ELSE CHOOSE i \in failing : \A j \in failing : i <= j
        IN  /\ Len(writer) = Len(b)
            /\ \A i \in DOMAIN b :
                 /\ i < f => /\ writer[i].writes =
                                  Append(b[i].writes,
                                         [data |-> wcall.data, ok |-> TRUE])
                             /\ SinkBody(writer[i]) =
                                  SinkBody(b[i]) \o wcall.data
                 /\ i = f => /\ writer[i].writes =
                                  Append(b[i].writes,
                                         [data |-> wcall.data, ok |-> FALSE])
                             /\ SinkBody(writer[i]) = SinkBody(b[i])
                 /\ i > f => writer[i] = b[i]
            /\ (wcall.err # NoErr) = (failing # {})
            /\ failing # {} => wcall.err = SinkWriteResult(b[f], wcall.data).err

\* A Write on three targets of which the second failed, and the third
\* would have.
C16_Witness ==
    /\ wcall.op = "Write"
    /\ Len(wcall.before) = 3
    /\ ~SinkWriteFails(wcall.before[1])
    /\ SinkWriteFails(wcall.before[2])
    /\ SinkWriteFails(wcall.before[3])
    /\ wcall.err # NoErr
    /\ Len(writer[1].writes) = Len(wcall.before[1].writes) + 1

(***************************************************************************)
(* C17.  The recorder is the first target of the handler's writer: at the  *)
(* moment the write of a predefined body to the client sink has failed,    *)
(* the recorder, which is the Response of the request's record, already    *)
(* holds the predefined response's headers, its status and its whole body. *)
(* Checked under SpecSteps.                                                *)
(***************************************************************************)
C17_RecorderFirst ==
    \A h \in Handlers :
        (inflight[h].pc = "seterr"
         /\ inflight[h].err.prefix = WriteResponsePrefix) =>
            LET c == inflight[h]
                recorder == Stored(c).Response
                resp == c.response[1]
            IN  /\ Receives(NewRecorder, recorder, resp)
                /\ recorder.writes = <<[data |-> resp.Body, ok |-> TRUE]>>
                /\ ~c.mw[2].writes[Len(c.mw[2].writes)].ok

\* The write of a predefined body with headers to the client sink has just
\* failed.
C17_Witness ==
    \E h \in Handlers :
        /\ inflight[h].pc = "seterr"
        /\ inflight[h].err.prefix = WriteResponsePrefix
        /\ inflight[h].response = <<RespA>>
        /\ SinkBody(inflight[h].mw[2]) = <<>>

(***************************************************************************)
(* C19.  On every failure path the handler sets the record's error, then   *)
(* appends the record to the store, then writes the 500 response: the      *)
(* record is not in the store before its error is set; as soon as a sink   *)
(* has received the status 500 the failed record is in the store, with its *)
(* error; and it is there when the handler is done, also when the write of *)
(* the 500 response failed.  Checked under SpecSteps.                      *)
(***************************************************************************)
C19_ErrorStateOrder ==
    \A h \in Handlers :
        LET c == inflight[h]
            InStore == \E k \in DOMAIN records :
                          /\ records[k].id = c.id
                          /\ records[k].ServerError = c.err
                          /\ c.err # NoErr
            Got500 == \E i \in DOMAIN c.mw : \E j \in DOMAIN c.mw[i].statuses :
                          c.mw[i].statuses[j].code = StatusInternalServerError
        IN  /\ Got500 => InStore
            /\ c.pc \in {"seterr", "appendfailed"} =>
                  /\ ~Got500
                  /\ \A k \in DOMAIN records : records[k].id # c.id
            /\ c.pc = "appendfailed" => c.rec[1].ServerError = c.err
            /\ c.pc \in {"errheader", "errstatus", "errbody"} => InStore
            /\ (c.pc = "done" /\ c.err # NoErr) => InStore /\ Got500

\* A handler is done whose write of the 500 response to the client failed.
C19_Witness ==
    \E h \in Handlers :
        /\ inflight[h].pc = "done"
        /\ inflight[h].err.prefix = ReadBodyPrefix
        /\ Len(inflight[h].mw[2].writes) = 1
        /\ ~inflight[h].mw[2].writes[1].ok
        /\ \E k \in DOMAIN records : records[k].id = inflight[h].id

(***************************************************************************)
(* C20.  On the success path the record is appended to the store only      *)
(* after the headers, the status and the body have been written through    *)
(* the writer: while the response is selected and emitted the request's    *)
(* record is not in the store, and once a record without error is in the   *)
(* store both sinks hold the whole response.  Checked under SpecSteps.     *)
(***************************************************************************)
C20_CommitIsLast ==
    \A h \in Handlers :
        LET c == inflight[h]
            InStore == \E k \in DOMAIN records : records[k].id = c.id
        IN  /\ c.pc \in {"drain", "parse", "select", "pop", "headers",
                         "status", "body", "commit"} => ~InStore
            /\ (c.pc # "idle" /\ InStore /\ c.err = NoErr) =>
                  /\ c.pc = "done"
                  /\ Receives(NewRecorder, c.mw[1], c.response[1])
                  /\ Receives(c.start[1].w, c.mw[2], c.response[1])
                  /\ records[Len(records)] = Stored(c)

\* The whole of a response with headers and a body has been written and the
\* record is about to be appended.
C20_Witness ==
    \E h \in Handlers :
        /\ inflight[h].pc = "commit"
        /\ inflight[h].response = <<RespA>>
        /\ SinkBody(inflight[h].mw[2]) = RespA.Body
        /\ \A k \in DOMAIN records : records[k].id # inflight[h].id

(***************************************************************************)
(* Vocabulary of the properties of SpecSteps.                              *)
(***************************************************************************)
\* The sinks of the handler that goroutine h runs, as they were when it
\* began: a new recorder and the client sink.
StartSinks(h) == <<NewRecorder, inflight[h].start[1].w>>

\* The values the response resp adds under the canonical key k.
Added(resp, k) ==
    IF \E rk \in RawKeys : CanonicalKey(rk) = k
    THEN resp.Headers[CHOOSE rk \in RawKeys : CanonicalKey(rk) = k]
    ELSE <<>>

(***************************************************************************)
(* C21.  For every request that reaches the emission of a response, each   *)
(* sink receives the header additions of the selected response before the  *)
(* status write and the status write before any body write, and a body     *)
(* write is issued only if the selected body is not empty.  Checked under  *)
(* SpecSteps.                                                              *)
(***************************************************************************)
C21_EmitOrder ==
    \A h \in Handlers :
        inflight[h].response # <<>> =>
            LET c == inflight[h]
                resp == c.response[1]
            IN  \A i \in DOMAIN c.mw :
                  LET s == c.mw[i]
                      s0 == StartSinks(h)[i]
                  IN  /\ c.pc \in {"pop", "headers"} =>
                            s.header = s0.header /\ s.statuses = <<>>
                      /\ c.pc \in {"pop", "headers", "status"} =>
                            s.statuses = <<>>
                      /\ c.pc \in {"pop", "headers", "status", "body"} =>
                            s.writes = <<>>
                      /\ s.statuses # <<>> =>
                            /\ s.statuses[1].code = resp.Status
                            /\ \A k \in HeaderKeys :
                                  Len(s.statuses[1].header[k]) =
                                     Len(s0.header[k]) + Len(Added(resp, k))
                      /\ s.writes # <<>> =>
                            /\ s.statuses # <<>>
                            /\ s.writes[1].data = resp.Body
                            /\ resp.Body # <<>>
                      /\ resp.Body = <<>> => s.writes = <<>>

\* The body of a response with headers is about to be written: both sinks
\* hold its status, written after its headers, and no body yet.
C21_Witness ==
    \E h \in Handlers :
        /\ inflight[h].pc = "body"
        /\ inflight[h].response = <<RespA>>
        /\ \A i \in DOMAIN inflight[h].mw :
              /\ Len(inflight[h].mw[i].statuses) = 1
              /\ inflight[h].mw[i].statuses[1].header["X-Tag"] # <<>>
              /\ inflight[h].mw[i].writes = <<>>

(***************************************************************************)
(* C23.  Each value of each header of the selected response is added, not  *)
(* set, to the header map of every sink: once the headers are written the  *)
(* header map of each sink holds, under each key, the values the sink      *)
(* already had followed by the values of the response in their order, and  *)
(* this is the header map the status is written with.  Checked under       *)
(* SpecSteps.                                                              *)
(***************************************************************************)
C23_HeadersAdditive ==
    \A h \in Handlers :
        inflight[h].response # <<>> =>
            LET c == inflight[h]
                resp == c.response[1]
            IN  \A i \in DOMAIN c.mw : \A k \in HeaderKeys :
                  LET s == c.mw[i]
                      merged == StartSinks(h)[i].header[k] \o Added(resp, k)
                  IN  /\ c.pc \in {"status", "body", "commit"} =>
                            s.header[k] = merged
                      /\ s.statuses # <<>> => s.statuses[1].header[k] = merged

\* The two values of a header of the response were added, on the client
\* sink, behind the value this sink already held under the same key.
C23_Witness ==
    \E h \in Handlers :
        /\ inflight[h].pc = "status"
        /\ inflight[h].response = <<RespA>>
        /\ inflight[h].start[1].w.header["X-Tag"] = <<"t">>
        /\ inflight[h].mw[2].header["X-Tag"] = <<"t", "a", "b">>
        /\ inflight[h].mw[1].header["X-Tag"] = <<"a", "b">>

(***************************************************************************)
(* C22.  WriteHeader(status) is called once on every target, in list       *)
(* order, with the same status, whether or not a target already had a      *)
(* status written; on a writer without targets it does nothing.  Checked   *)
(* under SpecWriter.                                                       *)
(***************************************************************************)
C22_WriteHeaderUnconditional ==
    wcall.op = "WriteHeader" =>
        LET b == wcall.before
        IN  /\ Len(writer) = Len(b)
            /\ \A i \in DOMAIN b :
                 writer[i] =
                    [b[i] EXCEPT !.statuses =
                        Append(@, [code |-> wcall.data[1],
                                   header |-> b[i].header])]
            /\ wcall.visited = [i \in 1..Len(b) |-> i]
            /\ b = <<>> => writer = <<>> /\ wcall.visited = <<>>

\* A second WriteHeader on a writer of three targets that all had a status.
C22_Witness ==
    /\ wcall.op = "WriteHeader" /\ wcall.prev = "WriteHeader"
    /\ Len(writer) = 3
    /\ \A i \in DOMAIN writer :
          /\ Len(wcall.before[i].statuses) = 1
          /\ Len(writer[i].statuses) = 2
          /\ writer[i].statuses[1].code = StatusOK
          /\ writer[i].statuses[2].code = StatusInternalServerError

(***************************************************************************)
(* C24.  Header() returns the header map of the first target when there is *)
(* one: a Set through it changes the header of the first target and of no  *)
(* other, and Values through it reads the first target's header.  On a     *)
(* writer without targets it returns a fresh empty map: a Set through it   *)
(* changes nothing and a later Header() shows no value.  Checked under     *)
(* SpecWriter.                                                             *)
(***************************************************************************)
C24_HeaderOfFirstTarget ==
    LET b == wcall.before
    IN  /\ wcall.op = "Header.Set" =>
              /\ Len(writer) = Len(b)
              /\ \A i \in DOMAIN b :
                    writer[i] =
                       IF i = 1
                       THEN [b[i] EXCEPT !.header =
                               HeaderSet(@, wcall.data[1], wcall.data[2])]
                       ELSE b[i]
        /\ wcall.op = "Header.Values" =>
              /\ writer = b
              /\ wcall.values =
                    IF b = <<>> THEN <<>>
                    ELSE b[1].header[CanonicalKey(wcall.data[1])]
              /\ wcall.prev = "Header.Set" =>
                    wcall.values =
                       IF b = <<>> THEN <<>> ELSE <<"text/plain">>

\* A Set through Header() on a writer of several targets, of which the
\* second held headers too.
C24_Witness ==
    /\ wcall.op = "Header.Set"
    /\ Len(writer) >= 2
    /\ writer[1].header["Content-Type"] = <<"text/plain">>
    /\ writer[2].header["Content-Type"] = <<>>
    /\ writer[2].header["Server"] # <<>>

(***************************************************************************)
(* C25.  When the Write of every target succeeds, Write returns the count  *)
(* and the nil error that the last target returned; when the Write of a    *)
(* target fails it returns the count and the failure of that target; on a  *)
(* writer without targets it returns 0 and nil.  Checked under SpecWriter. *)
(***************************************************************************)
C25_WriteReturnValue ==
    wcall.op = "Write" =>
        LET b == wcall.before
            failing == {i \in DOMAIN b : SinkWriteFails(b[i])}
            res == IF b = <<>> THEN [n |-> 0, err |-> NoErr]
                   ELSE IF failing = {}
                        THEN SinkWriteResult(b[Len(b)], wcall.data)
                        ELSE SinkWriteResult(
                                b[CHOOSE i \in failing :
                                     \A j \in failing : i <= j],
                                wcall.data)
        IN  /\ wcall.n = res.n
            /\ wcall.err = res.err
            /\ failing = {} => wcall.err = NoErr
            /\ (failing = {} /\ b # <<>>) => wcall.n = Len(wcall.data)
            /\ failing # {} => wcall.err = ErrSinkWrite

\* A Write of two pieces that every one of three targets accepted.
C25_Witness ==
    /\ wcall.op = "Write"
    /\ Len(wcall.before) = 3
    /\ wcall.err = NoErr
    /\ Len(wcall.data) = 2
    /\ wcall.n = 2

(***************************************************************************)
(* C26.  For a request of the form content type, of any method, whose body *)
(* can be read and whose handling ends in success, the RequestBody of the  *)
(* record holds the complete body of the request, captured while the form  *)
(* was parsed.  Checked under SpecAny.                                     *)
(***************************************************************************)
C26_AsClaimed ==
    (Served /\ S.req.ContentType = FormContentType /\ S.req.ReadErr = NoErr
     /\ S.ended = "success") =>
        /\ Len(LastRecords) = 1
        /\ LastRecords[1].RequestBody = S.req.Body

(***************************************************************************)
(* Vocabulary of the properties of two successive requests.                *)
(***************************************************************************)
\* The response the queue holds for the request handled next.
NextInQueue ==
    IF responses = <<>> THEN DefaultResponse ELSE Head(responses)

\* The request handled by the step reaches the selection of a response.
ReachesSelection ==
    /\ ServeStep
    /\ ~BodyReadFails(last'.serve[1].req)
    /\ ~FormParseFails(last'.serve[1].req)

(***************************************************************************)
(* C27.  A request that fails in the body read or in the form parse ends   *)
(* before a response is selected: it leaves the response queue as it was,  *)
(* and the request handled next is served the response the failed one      *)
(* would have been served.                                                 *)
(***************************************************************************)
C27_EarlyFailureKeepsQueue ==
    [][/\ (ServeStep /\ last'.serve[1].ended \in {"read", "parse"}) =>
            /\ responses' = responses
            /\ last'.serve[1].selected = <<>>
            /\ run.valid => run'.reached = run.reached
       /\ (ReachesSelection /\ last.op = "ServeHTTP"
           /\ last.serve[1].ended \in {"read", "parse"}) =>
            /\ last'.serve[1].selected = <<NextInQueue>>
            /\ last'.serve[1].ended = "success" =>
                  Receives(last'.serve[1].w0, last'.serve[1].w, NextInQueue)
      ]_vars

\* Two responses were pushed; the first request failed before the
\* selection and the second was served the first response.
C27_Witness ==
    /\ Served /\ S.ended = "success"
    /\ S.selected = <<RespA>>
    /\ run.valid /\ run.pushed = <<RespA, RespB>>
    /\ run.handled = 2 /\ run.reached = 1
    /\ responses = <<RespB>>

(***************************************************************************)
(* C28.  When the write of the body of the selected response fails the     *)
(* response has been consumed all the same: with more than one response    *)
(* queued it is removed from the queue and not put back, and the request   *)
(* handled next is served the response that followed it.                   *)
(***************************************************************************)
C28_WriteFailureConsumes ==
    [][/\ (ServeStep /\ last'.serve[1].ended = "write") =>
            /\ responses # <<>>
            /\ last'.serve[1].selected = <<Head(responses)>>
            /\ Len(responses) > 1 => responses' = Tail(responses)
            /\ Len(responses) = 1 => responses' = responses
       /\ (ReachesSelection /\ last.op = "ServeHTTP"
           /\ last.serve[1].ended = "write"
           /\ run.valid /\ run.reached < Len(run.pushed)) =>
            /\ last'.serve[1].selected = <<run.pushed[run.reached + 1]>>
            /\ last'.serve[1].ended = "success" =>
                  Receives(last'.serve[1].w0, last'.serve[1].w,
                           run.pushed[run.reached + 1])
      ]_vars

\* Two responses were pushed; the write of the first failed and the request
\* handled next was served the second.
C28_Witness ==
    /\ Served /\ S.ended = "success"
    /\ S.selected = <<RespB>>
    /\ run.valid /\ run.pushed = <<RespA, RespB>>
    /\ run.handled = 2 /\ run.reached = 2
    /\ \E i \in DOMAIN records :
          /\ records[i].id = nReq - 1
          /\ records[i].ServerError.prefix = WriteResponsePrefix

(***************************************************************************)
(* C29.  When the selected response, the default one included, has an      *)
(* empty body no Write is issued to any sink: the request ends in success  *)
(* with no error in its record, also on a client sink whose Write fails.   *)
(***************************************************************************)
C29_EmptyBodyCannotFail ==
    [][(ReachesSelection /\ NextInQueue.Body = <<>>) =>
          LET n == last'.serve[1]
              rec == records'[Len(records')]
          IN  /\ n.ended = "success"
              /\ n.w.writes = <<>>
              /\ rec.id = nReq'
              /\ rec.ServerError = NoErr
              /\ rec.Response.writes = <<>>
              /\ SinkStatus(n.w) = NextInQueue.Status]_vars

\* The default response was served on a client sink whose writes fail.
C29_Witness ==
    /\ Served /\ S.ended = "success"
    /\ S.selected = <<DefaultResponse>>
    /\ S.w0.fail = <<TRUE, TRUE>>
    /\ SinkStatus(S.w) = StatusNotFound

(***************************************************************************)
(* C30.  A response pushed after the only queued response R was served     *)
(* goes behind R; the request handled next is still served R, which is     *)
(* then removed; the request after that is served the pushed response,     *)
(* which stays in the queue as the one served from then on.                *)
(***************************************************************************)
C30_PushAfterStickyReplay ==
    [][/\ (last'.op = "Push" /\ last.op = "ServeHTTP"
           /\ last.serve[1].selected # <<>> /\ Len(responses) = 1
           /\ last.serve[1].selected[1] = responses[1]) =>
            /\ Len(responses') = 2
            /\ responses'[1] = responses[1]
       /\ (ReachesSelection /\ last.op = "Push" /\ Len(responses) = 2) =>
            /\ last'.serve[1].selected = <<responses[1]>>
            /\ responses' = <<responses[2]>>
            /\ last'.serve[1].ended = "success" =>
                  Receives(last'.serve[1].w0, last'.serve[1].w, responses[1])
       /\ (ReachesSelection /\ last.op = "ServeHTTP"
           /\ last.serve[1].selected # <<>> /\ Len(responses) = 1) =>
            /\ last'.serve[1].selected = <<responses[1]>>
            /\ responses' = responses
            /\ last'.serve[1].ended = "success" =>
                  Receives(last'.serve[1].w0, last'.serve[1].w, responses[1])
      ]_vars

\* Three requests succeeded, a response having been pushed after one of
\* them: they were served RespA, RespA again, then RespB, which is the one
\* left in the queue.
C30_Witness ==
    /\ Served /\ S.ended = "success"
    /\ S.selected = <<RespB>>
    /\ responses = <<RespB>>
    /\ ~run.valid /\ ~cleared
    /\ Len(records) = 3
    /\ \A i \in 1..3 : records[i].id = i /\ records[i].ServerError = NoErr
    /\ SinkStatus(records[1].Response) = RespA.Status
    /\ SinkStatus(records[2].Response) = RespA.Status
    /\ SinkStatus(records[3].Response) = RespB.Status

(***************************************************************************)
(* Vocabulary of the properties of the progress of a handler.              *)
(***************************************************************************)
\* The statements of ServeHTTP, then those of handleInternalError, in the
\* order of the source.
PcOrder ==
    << "drain", "parse", "select", "pop", "headers", "status", "body",
       "commit", "seterr", "appendfailed", "errheader", "errstatus",
       "errbody", "done" >>

Rank(pc) == CHOOSE i \in DOMAIN PcOrder : PcOrder[i] = pc

\* The statements of the error state.
ErrorPcs == {"seterr", "appendfailed", "errheader", "errstatus", "errbody"}

\* A sink of the handler context c holds a status 500 and the text of the
\* failure.
Emitted500(c) ==
    \A i \in DOMAIN c.mw :
        /\ \E j \in DOMAIN c.mw[i].statuses :
              c.mw[i].statuses[j].code = StatusInternalServerError
        /\ c.mw[i].writes # <<>>
        /\ c.mw[i].writes[Len(c.mw[i].writes)].data = ErrorText(c.err)

(***************************************************************************)
(* C31.  Provided every body read, form parse and sink write returns,      *)
(* each handler invocation reaches a terminal state: success, or failure   *)
(* after the 500 response was emitted, never both.  It gets there in a     *)
(* bounded number of steps: every step moves it to a later statement, none *)
(* is run twice, and after the first failure only the statements of the    *)
(* error state run.  Checked under SpecStepsFair.                          *)
(***************************************************************************)
C31_HandlerTerminates ==
    /\ \A h \in Handlers :
          (inflight[h].pc # "idle") ~> (inflight[h].pc = "done")
    /\ [][\A h \in Handlers :
            LET c == inflight[h]
                d == inflight'[h]
            IN  /\ (c.pc \notin {"idle", "done"} /\ d # c) =>
                      /\ d.id = c.id
                      /\ Rank(d.pc) > Rank(c.pc)
                      /\ c.pc \in ErrorPcs => d.pc \in ErrorPcs \cup {"done"}
                      /\ c.err # NoErr => d.err = c.err
                /\ (c.pc = "done" /\ d # c) => d.pc = "idle"
         ]_vars
    /\ [](\A h \in Handlers :
            inflight[h].pc = "done" =>
                LET c == inflight[h]
                    InStore == \E k \in DOMAIN records : records[k].id = c.id
                IN  /\ InStore
                    /\ c.err = NoErr => ~Emitted500(c)
                    /\ c.err # NoErr => Emitted500(c))

\* An invocation has ended in failure, another one in success before it.
C31_Witness ==
    \E h \in Handlers :
        /\ inflight[h].pc = "done"
        /\ inflight[h].err # NoErr
        /\ inflight[h].id = 2
        /\ Len(records) = 2
        /\ records[1].ServerError = NoErr

(***************************************************************************)
(* Vocabulary of the concurrent invocations.                               *)
(***************************************************************************)
\* The statements after the removal of the used response.
PastRemoval == {"headers", "status", "body", "commit", "commitstore", "done"}

\* The first two requests of the behaviour are both in flight, and both are
\* past response selection and removal.
FirstTwoSelected ==
    /\ inflight[1].id = 1
    /\ inflight[2].id = 2
    /\ inflight[1].pc \in PastRemoval
    /\ inflight[2].pc \in PastRemoval

\* The responses the test queued before the first request.
Queued == run.pushed

Range(s) == { s[i] : i \in DOMAIN s }

(***************************************************************************)
(* C32.  Nothing locks the response queue: of two concurrent invocations   *)
(* served from a queue of three or more responses, either each gets one    *)
(* of the first two responses and both are removed, or both get response   *)
(* 1; in that case one removal or both took effect, and when both did,     *)
(* response 2 has left the queue although no request was served it.        *)
(* Checked under SpecConc.                                                 *)
(***************************************************************************)
C32_RaceOnSelection ==
    (FirstTwoSelected /\ Len(Queued) >= 3) =>
        LET q == Queued
            a == inflight[1].response[1]
            b == inflight[2].response[1]
        IN  \/ a = q[1] /\ b = q[2] /\ responses = Tail(Tail(q))
            \/ a = q[2] /\ b = q[1] /\ responses = Tail(Tail(q))
            \/ a = q[1] /\ b = q[1] /\ responses = Tail(q)
            \/ a = q[1] /\ b = q[1] /\ responses = Tail(Tail(q))

\* Both requests got response 1 and response 2, another response, is gone.
C32_Witness ==
    /\ FirstTwoSelected
    /\ Queued = <<RespA, RespB, RespA>>
    /\ inflight[1].response = <<RespA>>
    /\ inflight[2].response = <<RespA>>
    /\ responses = <<RespA>>
    /\ inflight[1].pc = "done"
    /\ inflight[2].pc = "done"

(***************************************************************************)
(* C33.  Of two concurrent invocations served from a queue of exactly two  *)
(* responses, both can pass the len > 1 check and both remove: the queue   *)
(* is then empty although nothing cleared it, and the requests that        *)
(* select after that get the default 404, not the last response pushed.    *)
(* The two invocations end in one of four ways; a queue that was filled    *)
(* gets empty only when it held two responses or more and as many          *)
(* requests came; and a request gets the default response only from an     *)
(* empty queue, which stays empty.  Checked under SpecConc.                *)
(***************************************************************************)
C33_RaceBreaksStickiness ==
    /\ (FirstTwoSelected /\ Len(Queued) = 2) =>
          LET q == Queued
              a == inflight[1].response[1]
              b == inflight[2].response[1]
          IN  \/ a = q[1] /\ b = q[2] /\ responses = <<q[2]>>
              \/ a = q[2] /\ b = q[1] /\ responses = <<q[2]>>
              \/ a = q[1] /\ b = q[1] /\ responses = <<q[2]>>
              \/ a = q[1] /\ b = q[1] /\ responses = <<>>
    /\ (responses = <<>> /\ Queued # <<>>) =>
          /\ ~cleared
          /\ Len(Queued) >= 2
          /\ nReq >= Len(Queued)
    /\ \A h \in Handlers :
          inflight[h].pc \in PastRemoval =>
              /\ inflight[h].response[1] \in Range(Queued) \cup {DefaultResponse}
              /\ inflight[h].response[1] = DefaultResponse => responses = <<>>

\* Two responses were queued, nothing cleared them, the queue is empty and
\* the third request was served the default response.
C33_Witness ==
    /\ Queued = <<RespA, RespB>>
    /\ ~cleared
    /\ responses = <<>>
    /\ \E h \in Handlers :
          /\ inflight[h].id = 3
          /\ inflight[h].pc = "done"
          /\ inflight[h].response = <<DefaultResponse>>
          /\ SinkStatus(inflight[h].mw[2]) = StatusNotFound

(***************************************************************************)
(* Vocabulary of the concurrent appends.                                   *)
(***************************************************************************)
\* The statements after the append of the record, of a success or of a
\* failure.
PastAppend == {"errheader", "errstatus", "errbody", "done"}

\* The append of the record of request id has completed.
Appended(id) ==
    /\ id \in 1..nReq
    /\ \A h \in Handlers :
          inflight[h].id = id => inflight[h].pc \in PastAppend \cup {"idle"}

\* The ids of the records of the store, in the order of the store.
StoredIds == [i \in DOMAIN records |-> records[i].id]

\* The handler that takes a step which writes the store.
Storing(h) ==
    \/ inflight[h].pc = "commitstore" /\ inflight'[h].pc = "done"
    \/ inflight[h].pc = "failstore" /\ inflight'[h].pc = "errheader"

(***************************************************************************)
(* C34.  The append of a record reads the store and writes it back with    *)
(* no lock: the store written is the one read, with the record at its      *)
(* end.  Two concurrent invocations, or an invocation and a                *)
(* PopServerRecord, can therefore both complete while a record is          *)
(* missing.  The store never holds a record twice nor the record of an     *)
(* append that has not completed, and it holds at least one record once    *)
(* an append has completed and no pop was made; of the first two requests, *)
(* run concurrently, it holds both records in either order, or one of      *)
(* them only.  Checked under SpecAppend.                                   *)
(***************************************************************************)
C34_RaceOnAppend ==
    /\ [][\A h \in Handlers :
            Storing(h) =>
                /\ Len(records') = Len(inflight[h].loadedRecords) + 1
                /\ records'[Len(records')].id = inflight[h].id
                /\ \A i \in DOMAIN inflight[h].loadedRecords :
                      records'[i].id = inflight[h].loadedRecords[i].id]_vars
    /\ [](/\ \A i, j \in DOMAIN records :
               records[i].id = records[j].id => i = j
          /\ \A i \in DOMAIN records : Appended(records[i].id)
          /\ (last.op = "New" /\ \E id \in 1..nReq : Appended(id)) =>
                records # <<>>
          /\ (last.op = "New" /\ Appended(1) /\ Appended(2)
                /\ inflight[1].id = 1 /\ inflight[2].id = 2) =>
                StoredIds \in {<<1, 2>>, <<2, 1>>, <<1>>, <<2>>})

\* Two invocations have both completed, no record was popped, and the store
\* holds one record.
C34_Witness ==
    /\ inflight[1].id = 1
    /\ inflight[2].id = 2
    /\ inflight[1].pc = "done"
    /\ inflight[2].pc = "done"
    /\ inflight[2].err # NoErr
    /\ last.op = "New"
    /\ Len(records) = 1

\* An invocation and a PopServerRecord have both completed, and the store
\* is empty although the record appended was not the one popped.
C34_LostToPop ==
    /\ nReq = 2
    /\ inflight[1].id = 2
    /\ inflight[1].pc = "done"
    /\ last.op = "Pop"
    /\ last.popped # <<>>
    /\ last.popped[1].id = 1
    /\ records = <<>>

(***************************************************************************)
(* Vocabulary of the clears that race a handler.                           *)
(***************************************************************************)
\* The record of request id is in the store s.
Holds(s, id) == \E i \in DOMAIN s : s[i].id = id

\* No sink of the handler context c was written to.
NothingEmitted(c) ==
    \A i \in DOMAIN c.mw : c.mw[i].statuses = <<>> /\ c.mw[i].writes = <<>>

(***************************************************************************)
(* C35.  A clear does not reach a request that is past the point where it  *)
(* reads the queue.  Once a handler has selected its response and is past  *)
(* the removal, no step, a ClearPredefinedServerResponses included,        *)
(* changes the response it holds, and a request that succeeds has emitted  *)
(* that response to the client.  The append of the record puts it at the   *)
(* end of the store whether or not ClearServerRecords ran before, and the  *)
(* record of a request in flight leaves the store only by a later          *)
(* ClearServerRecords.  Checked under SpecClear.                           *)
(***************************************************************************)
C35_ClearSparesInFlight ==
    /\ [][\A h \in Handlers :
            LET c == inflight[h]
                d == inflight'[h]
            IN  /\ (c.pc \in PastRemoval /\ d.pc # "idle") =>
                      /\ d.pc \in PastRemoval
                      /\ d.response = c.response
                /\ Storing(h) =>
                      /\ records' # <<>>
                      /\ records'[Len(records')].id = c.id
                /\ (c.pc # "idle" /\ Holds(records, c.id)
                      /\ ~Holds(records', c.id)) =>
                      /\ last'.op = "ClearRecords"
                      /\ records' = <<>>]_vars
    /\ [](\A h \in Handlers :
            LET c == inflight[h]
            IN  (c.pc = "done" /\ c.err = NoErr) =>
                    Receives(c.start[1].w, c.mw[2], c.response[1]))

\* The second request selected a queued response; the queue was cleared
\* after that and the records after the clear of the queue, and before the
\* append; the request has emitted the response it selected and its record
\* is the one record of the store.
C35_Witness ==
    /\ inflight[1].pc = "done"
    /\ inflight[1].id = 2
    /\ inflight[1].response = <<RespA>>
    /\ SinkStatus(inflight[1].mw[2]) = StatusOK
    /\ SinkBody(inflight[1].mw[2]) = RespA.Body
    /\ responses = <<>>
    /\ cleared
    /\ last.op = "ClearRecords"
    /\ Len(records) = 1
    /\ records[1].id = 2
    /\ records[1].Response = inflight[1].mw[1]

(***************************************************************************)
(* C36.  A ClearPredefinedServerResponses that runs between a length       *)
(* check of the handler and the read that follows it, of the head or of    *)
(* the slice from 1, leaves the handler with an empty queue to read: the   *)
(* read is out of bounds and the invocation panics.  A panicked            *)
(* invocation has written nothing to its sinks, holds no failure, has no   *)
(* record in the store, and ends without a further statement: it reaches   *)
(* neither the success nor the error state and appends no record.  A       *)
(* handler panics in no other way.  Checked under SpecClear.               *)
(***************************************************************************)
C36_ClearRacesRead ==
    /\ [][\A h \in Handlers :
            LET c == inflight[h]
                d == inflight'[h]
            IN  /\ (c.pc \in {"head", "reslice"} /\ responses = <<>>
                      /\ d # c) => d.pc = "panicked"
                /\ (c.pc = "panicked" /\ d # c) =>
                      /\ d = IdleHandler
                      /\ records' = records
                /\ (c.pc # "panicked" /\ d.pc = "panicked") =>
                      /\ c.pc \in {"head", "reslice"}
                      /\ responses = <<>>
                      /\ cleared]_vars
    /\ [](\A h \in Handlers :
            LET c == inflight[h]
            IN  c.pc = "panicked" =>
                    /\ c.err = NoErr
                    /\ NothingEmitted(c)
                    /\ ~Holds(records, c.id))

\* The handler found two responses or more, the queue was cleared, and the
\* slice from 1 was out of bounds.
C36_Witness ==
    /\ inflight[1].pc = "panicked"
    /\ inflight[1].response = <<RespA>>
    /\ responses = <<>>
    /\ cleared

\* The handler found a response, the queue was cleared, and the read of the
\* head was out of bounds.
C36_PanicAtHead ==
    /\ inflight[1].pc = "panicked"
    /\ inflight[1].response = <<DefaultResponse>>
    /\ responses = <<>>
    /\ cleared

====
